---- MODULE Spec2Model ----
(***************************************************************************)
(* Image-to-design recognition core of i2p: the recognition manager        *)
(* (services/index.ts), the local region segmenter                         *)
(* (services/localImageProcessor.ts), the remote vision adapter            *)
(* (openApiVisionService) and the layout analyzer                          *)
(* (services/layoutAnalyzer.ts).                                           *)
(*                                                                         *)
(* Conventions.  An optional field of a TypeScript object is a sequence of *)
(* length 0 (absent) or 1 (present).  A number that the code computes by   *)
(* division is an exact fraction <<num, den>> in lowest terms; <<0, 0>> is *)
(* NaN.  An error message is a sequence of strings, the pieces the code    *)
(* concatenates.  A function that can throw returns                        *)
(* [thrown |-> TRUE, error |-> msg] or [thrown |-> FALSE, value |-> v].    *)
(***************************************************************************)
EXTENDS Integers, Sequences, FiniteSets, TLC

VARIABLES
    config,              \* ImageRecognitionManager.config
    openApiService,      \* ImageRecognitionManager.openApiService: "null" or "service"
    hasDOM,              \* whether document / HTMLCanvasElement exist in the runtime
    pc,                  \* position of the analyze call in flight
    imageData,           \* argument of analyze: the image
    preferredService,    \* argument of analyze
    enableLayoutAnalysis,\* argument of analyze
    result,              \* the local variable `result` of analyze
    openApiResult,       \* history: what tryOpenApi returned in this call (0 or 1 entries)
    localResult,         \* history: what tryLocal returned in this call (0 or 1 entries)
    trace,               \* history: services invoked by this call, in order
    fetchCalls,          \* history: outbound network requests issued by this call
    lastResponse,        \* history: what the network answered in this call (0 or 1 entries)
    lastDecode,          \* history: how image decoding went in this call (0 or 1 entries)
    bPc,                 \* a second, concurrent analyze call: its position
    bArgs,               \* second call: its arguments
    bResult,             \* second call: its local variable `result` (0 or 1 entries)
    bResponse,           \* second call: what the network answered it (0 or 1 entries)
    bDecode,             \* second call: how image decoding went for it (0 or 1 entries)
    hostReady,           \* HostCommunicationManager.hostReady
    pendingMessages,     \* HostCommunicationManager.pendingMessages
    uiPosts,             \* history: the messages given to pixso.ui.postMessage, in order
    droppedMessages,     \* history: the pending messages dropped from a full queue
    hClock,              \* host manager: the timestamp of the last message sent
    hOps,                \* host manager: operations performed since the initial state
    uPc,                 \* handleImageUpload: position of the call
    uSettings,           \* handleImageUpload: processingMode and whether a key is set
    uPosts,              \* history: what this call gave to pixso.ui.postMessage, in order
    uCloseScheduled,     \* history: setTimeout(closePlugin) calls of this call
    uClosed,             \* whether pixso.closePlugin() has run
    uAnalyses,           \* history: calls of imageRecognitionManager.analyze
    uTimer,              \* withTimeout: its timer: unset, armed, fired, cleared
    uAnalysis,           \* the analyze promise: none, pending, settled
    uElements,           \* number of elements of the analysis result
    logs,                \* Logger.logs
    minLevel,            \* Logger.minLevel
    maxEntries,          \* Logger.maxEntries
    listeners,           \* Logger.listeners: how many are registered
    delivered,           \* history: the entries given to the listeners, in order
    logClock,            \* history: calls of debug/info/warn/error so far
    rPc,                 \* withRetry: position of the call
    rConfig,             \* withRetry: maxAttempts, delayMs, backoffMultiplier
    attempt,             \* withRetry: the loop variable
    currentDelay,        \* withRetry: currentDelay
    lastError,           \* withRetry: lastError, 0 or 1 errors
    rCalls,              \* history: the outcomes of the invocations of fn, in order
    rRetries,            \* history: the arguments of the onRetry calls, in order
    rWaits,              \* history: the delays of the setTimeout calls, in order
    rResult,             \* how the promise of withRetry settled, 0 or 1 outcomes
    lElements,           \* layout analyzer: input element list
    lWidth,              \* layout analyzer: container width
    lHeight,             \* layout analyzer: container height
    lConstrained,        \* layout analyzer: output of generateAllConstraints (0 or 1 entries)
    lStructure,          \* layout analyzer: output of analyzeStructure (0 or 1 entries)
    lAlignment,          \* layout analyzer: output of detectAlignment (0 or 1 entries)
    lAgain,              \* layout analyzer: generateAllConstraints on its own output (0 or 1)
    lGaps,               \* layout analyzer: a list of gaps given to getMostCommonValue, doubled
    lCommon,             \* layout analyzer: output of getMostCommonValue on lGaps (0 or 1)
    sImage,              \* segmenter: input image
    sConfig,             \* segmenter: LocalImageProcessor.config
    sRegions,            \* segmenter: output of detectRegions (0 or 1 entries)
    sResult,             \* segmenter: output of LocalImageProcessor.analyze (0 or 1 entries)
    sScanned,            \* segmenter: history: grid cells findRegion was called on (0 or 1)
    sPair,               \* segmenter: two regions given to shouldMerge and mergeTwo
    sMerged,             \* segmenter: output of mergeTwo on sPair (0 or 1 entries)
    sList,               \* segmenter: a list of regions given to mergeRegions
    sGroups,             \* segmenter: history: the input indices each output region absorbed
    aPc,                 \* adapter: position of OpenApiVisionService.analyze
    aTimer,              \* adapter: the timer of sendRequest: unset, armed, fired, cleared
    aFetches,            \* adapter: history: fetch calls issued by this analyze call
    aResponse,           \* adapter: history: how the request of this call ended (0 or 1)
    aResult              \* adapter: what analyze returned or threw (0 or 1 entries)

vars == <<config, openApiService, hasDOM, pc, imageData, preferredService,
          enableLayoutAnalysis, result, openApiResult, localResult, trace,
          fetchCalls, lastResponse, lastDecode,
          bPc, bArgs, bResult, bResponse, bDecode,
          hostReady, pendingMessages, uiPosts, droppedMessages, hClock, hOps,
          uPc, uSettings, uPosts, uCloseScheduled, uClosed, uAnalyses, uTimer,
          uAnalysis, uElements,
          logs, minLevel, maxEntries, listeners, delivered, logClock,
          rPc, rConfig, attempt, currentDelay, lastError, rCalls, rRetries, rWaits,
          rResult,
          lElements, lWidth, lHeight, lConstrained, lStructure, lAlignment, lAgain,
          lGaps, lCommon,
          sImage, sConfig, sRegions, sResult, sScanned, sPair, sMerged, sList, sGroups,
          aPc, aTimer, aFetches, aResponse, aResult>>

callBVars == <<bPc, bArgs, bResult, bResponse, bDecode>>

hostVars == <<hostReady, pendingMessages, uiPosts, droppedMessages, hClock, hOps>>

uploadVars == <<uPc, uSettings, uPosts, uCloseScheduled, uClosed, uAnalyses, uTimer,
               uAnalysis, uElements>>

loggerVars == <<logs, minLevel, maxEntries, listeners, delivered, logClock>>

retryVars == <<rPc, rConfig, attempt, currentDelay, lastError, rCalls, rRetries, rWaits,
              rResult>>

\* the variables of main.ts and of utils
utilVars == <<hostVars, uploadVars, loggerVars, retryVars>>

managerVars == <<config, openApiService, hasDOM, pc, imageData, preferredService,
                 enableLayoutAnalysis, result, openApiResult, localResult, trace,
                 fetchCalls, lastResponse, lastDecode, callBVars, utilVars>>

layoutVars == <<lElements, lWidth, lHeight, lConstrained, lStructure, lAlignment,
                lAgain, lGaps, lCommon>>

segVars == <<sImage, sConfig, sRegions, sResult, sScanned, sPair, sMerged, sList,
             sGroups>>

adapterVars == <<aPc, aTimer, aFetches, aResponse, aResult>>

----------------------------------------------------------------------------
(* Arithmetic helpers *)

Min(a, b) == IF a < b THEN a ELSE b

Max(a, b) == IF a > b THEN a ELSE b

Abs(a) == IF a < 0 THEN -a ELSE a

RECURSIVE GCD(_, _)
GCD(a, b) == IF b = 0 THEN a ELSE GCD(b, a % b)

\* the fraction n/d in lowest terms with a positive denominator
Frac(n, d) ==
    IF d = 0 THEN <<0, 0>>
    ELSE LET g == GCD(Abs(n), Abs(d))
             s == IF d < 0 THEN -1 ELSE 1
         IN  <<s * (n \div g), s * (d \div g)>>

Some(x) == <<x>>

None == <<>>

Throw(msg) == [thrown |-> TRUE, error |-> msg, value |-> <<>>]

Return(v) == [thrown |-> FALSE, error |-> <<>>, value |-> <<v>>]

\* Op applied to the value of val, which is computed once
Eval(val, Op(_)) == CHOOSE r \in {Op(v) : v \in {val}} : TRUE

----------------------------------------------------------------------------
(* services/layoutAnalyzer.ts *)

alignmentThreshold == 5

gapThreshold == 10

minGroupSize == 2

\* ElementBounds, every coordinate doubled so that the centres stay integers
calculateBounds(elements) ==
    [i \in 1..Len(elements) |->
        [index   |-> i,
         left    |-> 2 * elements[i].x,
         top     |-> 2 * elements[i].y,
         right   |-> 2 * (elements[i].x + elements[i].width),
         bottom  |-> 2 * (elements[i].y + elements[i].height),
         centerX |-> 2 * elements[i].x + elements[i].width,
         centerY |-> 2 * elements[i].y + elements[i].height]]

\* Array.prototype.sort with comparator a.key - b.key: a stable sort
RECURSIVE InsertSorted(_, _, _)
InsertSorted(b, sorted, key) ==
    IF sorted = <<>> THEN <<b>>
    ELSE IF b[key] < Head(sorted)[key] THEN <<b>> \o sorted
    ELSE <<Head(sorted)>> \o InsertSorted(b, Tail(sorted), key)

RECURSIVE SortByKey(_, _)
SortByKey(bounds, key) ==
    IF bounds = <<>> THEN <<>>
    ELSE InsertSorted(bounds[Len(bounds)],
                      SortByKey(SubSeq(bounds, 1, Len(bounds) - 1), key), key)

RECURSIVE groupLoop(_, _, _, _, _, _)
groupLoop(sorted, key, threshold2, groups, currentGroup, lastValue) ==
    IF sorted = <<>> THEN [groups |-> groups, currentGroup |-> currentGroup]
    ELSE LET bound == Head(sorted)
             value == bound[key]
             flush == currentGroup # <<>> /\ value - lastValue > threshold2
         IN  groupLoop(Tail(sorted), key, threshold2,
                       IF flush THEN Append(groups, currentGroup) ELSE groups,
                       Append(IF flush THEN <<>> ELSE currentGroup, bound.index),
                       value)

\* variant: the bounds are grouped in input order, without sorting
groupByValue_unsorted(bounds, key, threshold) ==
    LET r == groupLoop(bounds, key, 2 * threshold, <<>>, <<>>, 0)
    IN  IF r.currentGroup # <<>> THEN Append(r.groups, r.currentGroup) ELSE r.groups

\* groupByValue(bounds, b => b[key], threshold); the values of bounds are
\* doubled.  lastValue starts at -Infinity in the code: the first value never
\* flushes, because currentGroup is empty then.
groupByValue(bounds, key, threshold) ==
    LET r == groupLoop(SortByKey(bounds, key), key, 2 * threshold, <<>>, <<>>, 0)
    IN  IF r.currentGroup # <<>> THEN Append(r.groups, r.currentGroup) ELSE r.groups

RECURSIVE SeqMin(_)
SeqMin(s) == IF Len(s) = 1 THEN s[1] ELSE Min(s[1], SeqMin(Tail(s)))

RECURSIVE SeqMax(_)
SeqMax(s) == IF Len(s) = 1 THEN s[1] ELSE Max(s[1], SeqMax(Tail(s)))

\* variant: the rows are grouped with the alignment threshold itself
detectRows_singleThreshold(bounds) ==
    LET groups == groupByValue(bounds, "centerY", alignmentThreshold)
        kept   == SelectSeq(groups, LAMBDA g : Len(g) >= minGroupSize)
    IN  [k \in 1..Len(kept) |->
            LET group == kept[k]
                minY  == SeqMin([m \in 1..Len(group) |-> bounds[group[m]].top]) \div 2
                maxY  == SeqMax([m \in 1..Len(group) |-> bounds[group[m]].bottom]) \div 2
            IN  [y |-> minY, height |-> maxY - minY, elements |-> group]]

detectRows(bounds) ==
    LET groups == groupByValue(bounds, "centerY", alignmentThreshold * 2)
        kept   == SelectSeq(groups, LAMBDA g : Len(g) >= minGroupSize)
    IN  [k \in 1..Len(kept) |->
            LET group == kept[k]
                minY  == SeqMin([m \in 1..Len(group) |-> bounds[group[m]].top]) \div 2
                maxY  == SeqMax([m \in 1..Len(group) |-> bounds[group[m]].bottom]) \div 2
            IN  [y |-> minY, height |-> maxY - minY, elements |-> group]]

detectColumns(bounds) ==
    LET groups == groupByValue(bounds, "centerX", alignmentThreshold * 2)
        kept   == SelectSeq(groups, LAMBDA g : Len(g) >= minGroupSize)
    IN  [k \in 1..Len(kept) |->
            LET group == kept[k]
                minX  == SeqMin([m \in 1..Len(group) |-> bounds[group[m]].left]) \div 2
                maxX  == SeqMax([m \in 1..Len(group) |-> bounds[group[m]].right]) \div 2
            IN  [x |-> minX, width |-> maxX - minX, elements |-> group]]

\* detectAlignment: six groupings of the element indices, each a list of
\* groups (groups of a single element included)
detectAlignment(elements) ==
    LET bounds    == calculateBounds(elements)
        threshold == alignmentThreshold
    IN  [leftAligned    |-> groupByValue(bounds, "left", threshold),
         rightAligned   |-> groupByValue(bounds, "right", threshold),
         topAligned     |-> groupByValue(bounds, "top", threshold),
         bottomAligned  |-> groupByValue(bounds, "bottom", threshold),
         centerXAligned |-> groupByValue(bounds, "centerX", threshold),
         centerYAligned |-> groupByValue(bounds, "centerY", threshold)]

\* Math.round of the number v2 / 2
MathRound2(v2) == (v2 + 1) \div 2

CountOf(v, s) == Cardinality({i \in 1..Len(s) : s[i] = v})

\* first value whose count is strictly greater than every count seen before it
RECURSIVE mostCommonLoop(_, _, _, _)
mostCommonLoop(rounded, i, maxCount, mostCommon) ==
    IF i > Len(rounded) THEN mostCommon
    ELSE LET count == CountOf(rounded[i], rounded)
         IN  IF count > maxCount
             THEN mostCommonLoop(rounded, i + 1, count, rounded[i])
             ELSE mostCommonLoop(rounded, i + 1, maxCount, mostCommon)

\* variant: among equally frequent values the largest is chosen
getMostCommonValue_largestMode(values2) ==
    LET rounded == [i \in 1..Len(values2) |-> MathRound2(values2[i])]
        modes   == {rounded[i] : i \in {i \in 1..Len(rounded) :
                       \A j \in 1..Len(rounded) :
                           CountOf(rounded[j], rounded) <= CountOf(rounded[i], rounded)}}
    IN  IF modes = {} THEN 0 ELSE CHOOSE v \in modes : \A w \in modes : w <= v

\* getMostCommonValue(values); values2 holds the values doubled
getMostCommonValue(values2) ==
    LET rounded == [i \in 1..Len(values2) |-> MathRound2(values2[i])]
    IN  mostCommonLoop(rounded, 1, 0, 0)

\* the positive gaps between consecutive spans sorted by their start, doubled
positiveGaps(spans, start, extent) ==
    LET sorted == SortByKey(spans, start)
        gaps   == [i \in 1..(Len(sorted) - 1) |->
                      sorted[i + 1][start] - (sorted[i][start] + sorted[i][extent])]
        kept   == SelectSeq(gaps, LAMBDA g : g > 0)
    IN  [i \in 1..Len(kept) |-> 2 * kept[i]]

\* variant: a grid needs two groups on both axes
detectGrid_bothAxes(elements, rows, columns) ==
    IF Len(rows) < 2 \/ Len(columns) < 2 THEN None
    ELSE LET rowGaps    == positiveGaps(rows, "y", "height")
             rowGap     == IF Len(rowGaps) > 0 THEN getMostCommonValue(rowGaps) ELSE 0
             columnGaps == positiveGaps(columns, "x", "width")
             columnGap  == IF Len(columnGaps) > 0
                           THEN getMostCommonValue(columnGaps) ELSE 0
         IN  Some([columnCount |-> Len(columns), rowCount |-> Len(rows),
                   columnGap |-> columnGap, rowGap |-> rowGap])

detectGrid(elements, rows, columns) ==
    IF Len(rows) < 2 /\ Len(columns) < 2 THEN None
    ELSE LET rowGaps    == IF Len(rows) >= 2
                           THEN positiveGaps(rows, "y", "height") ELSE <<>>
             rowGap     == IF Len(rowGaps) > 0 THEN getMostCommonValue(rowGaps) ELSE 0
             columnGaps == IF Len(columns) >= 2
                           THEN positiveGaps(columns, "x", "width") ELSE <<>>
             columnGap  == IF Len(columnGaps) > 0
                           THEN getMostCommonValue(columnGaps) ELSE 0
         IN  Some([columnCount |-> Len(columns), rowCount |-> Len(rows),
                   columnGap |-> columnGap, rowGap |-> rowGap])

analyzeStructure(elements, containerWidth, containerHeight) ==
    IF Len(elements) = 0 THEN [rows |-> <<>>, columns |-> <<>>, gridInfo |-> None]
    ELSE LET bounds  == calculateBounds(elements)
             rows    == detectRows(bounds)
             columns == detectColumns(bounds)
         IN  [rows |-> rows, columns |-> columns,
              gridInfo |-> detectGrid(elements, rows, columns)]

\* variant: the min rule is tried before the center rule
inferHorizontalConstraint_minFirst(element, containerWidth) ==
    LET leftDistance  == element.x
        rightDistance == containerWidth - (element.x + element.width)
    IN  IF 10 * element.width > 8 * containerWidth THEN "stretch"
        ELSE IF leftDistance < rightDistance /\ 10 * leftDistance < containerWidth
             THEN "min"
        ELSE IF 10 * Abs(leftDistance - rightDistance) < containerWidth THEN "center"
        ELSE IF rightDistance < leftDistance /\ 10 * rightDistance < containerWidth
             THEN "max"
        ELSE "scale"

\* The comparisons with containerWidth * 0.8 and containerWidth * 0.1 are
\* made on integers scaled by 10 (for integer operands the double products
\* round to the same side of every integer as the exact products).
inferHorizontalConstraint(element, containerWidth) ==
    LET leftDistance  == element.x
        rightDistance == containerWidth - (element.x + element.width)
    IN  IF 10 * element.width > 8 * containerWidth THEN "stretch"
        ELSE IF 10 * Abs(leftDistance - rightDistance) < containerWidth THEN "center"
        ELSE IF leftDistance < rightDistance /\ 10 * leftDistance < containerWidth
             THEN "min"
        ELSE IF rightDistance < leftDistance /\ 10 * rightDistance < containerWidth
             THEN "max"
        ELSE "scale"

inferVerticalConstraint(element, containerHeight) ==
    LET topDistance    == element.y
        bottomDistance == containerHeight - (element.y + element.height)
    IN  IF 10 * element.height > 8 * containerHeight THEN "stretch"
        ELSE IF 10 * Abs(topDistance - bottomDistance) < containerHeight THEN "center"
        ELSE IF topDistance < bottomDistance /\ 10 * topDistance < containerHeight
             THEN "min"
        ELSE IF bottomDistance < topDistance /\ 10 * bottomDistance < containerHeight
             THEN "max"
        ELSE "scale"

generateConstraints(element, containerWidth, containerHeight) ==
    [constraints |->
        [horizontal |-> inferHorizontalConstraint(element, containerWidth),
         vertical   |-> inferVerticalConstraint(element, containerHeight)]]

\* variant: an element that already carries constraints is set to scale
generateAllConstraints_scaleIfPresent(elements, containerWidth, containerHeight) ==
    [i \in 1..Len(elements) |->
        [elements[i] EXCEPT
            !.layout =
                IF elements[i].layout # None
                THEN Some([constraints |-> [horizontal |-> "scale", vertical |-> "scale"]])
                ELSE Some(generateConstraints(elements[i], containerWidth,
                                              containerHeight))]]

\* variant: the output elements are built from the geometry alone
generateAllConstraints_geometryOnly(elements, containerWidth, containerHeight) ==
    [i \in 1..Len(elements) |->
        [type |-> "rectangle", x |-> elements[i].x, y |-> elements[i].y,
         width |-> elements[i].width, height |-> elements[i].height,
         color |-> None, text |-> None, fontSize |-> None,
         layout |-> Some(generateConstraints(elements[i], containerWidth,
                                             containerHeight))]]

\* { ...element, layout: { ...element.layout, ...layout } }: constraints is
\* the only field of LayoutInfo the core ever sets, and layout overrides it
generateAllConstraints(elements, containerWidth, containerHeight) ==
    [i \in 1..Len(elements) |->
        [elements[i] EXCEPT
            !.layout = Some(generateConstraints(elements[i], containerWidth,
                                                containerHeight))]]

----------------------------------------------------------------------------
(* Exact fractions <<num, den>> *)

FAdd(a, b) == Frac(a[1] * b[2] + b[1] * a[2], a[2] * b[2])

FSub(a, b) == Frac(a[1] * b[2] - b[1] * a[2], a[2] * b[2])

FScale(a, k) == Frac(a[1] * k, a[2])

FDivInt(a, k) == Frac(a[1], a[2] * k)

FAbs(a) == <<Abs(a[1]), a[2]>>

\* a > b; false when either side is NaN, as every comparison with NaN is
FGreater(a, b) == a[2] # 0 /\ b[2] # 0 /\ a[1] * b[2] > b[1] * a[2]

FLeq(a, b) == a[2] # 0 /\ b[2] # 0 /\ a[1] * b[2] <= b[1] * a[2]

----------------------------------------------------------------------------
(* services/localImageProcessor.ts *)

\* An image is [width, height, splitX, colorA, colorB]: the pixel (x, y) has
\* the color colorA when x < splitX and colorB otherwise; a color is
\* <<r, g, b>> with channels in 0..255.
Pixel(img, x, y) == IF x < img.splitX THEN img.colorA ELSE img.colorB

defaultColorThreshold == 30

defaultMinRegionSize == 20

defaultMaxRegions == 50

\* constructor of LocalImageProcessor: option ?? default
LocalImageProcessor(colorThreshold, minRegionSize, maxRegions) ==
    [colorThreshold |-> IF colorThreshold = None THEN defaultColorThreshold
                        ELSE colorThreshold[1],
     minRegionSize  |-> IF minRegionSize = None THEN defaultMinRegionSize
                        ELSE minRegionSize[1],
     maxRegions     |-> IF maxRegions = None THEN defaultMaxRegions
                        ELSE maxRegions[1]]

LocalImageProcessor_isAvailable(dom) == dom

\* sum of channel ch over the pixels x..endX-1 of row y
RECURSIVE rowTotal(_, _, _, _, _)
rowTotal(img, ch, x, endX, y) ==
    IF x >= endX THEN 0
    ELSE Pixel(img, x, y)[ch] + rowTotal(img, ch, x + 1, endX, y)

RECURSIVE cellTotal(_, _, _, _, _, _)
cellTotal(img, ch, startX, endX, y, endY) ==
    IF y >= endY THEN 0
    ELSE rowTotal(img, ch, startX, endX, y)
         + cellTotal(img, ch, startX, endX, y + 1, endY)

\* findRegion: None stands for null
findRegion(img, startX, startY, gridSize) ==
    LET endX  == Min(startX + gridSize, img.width)
        endY  == Min(startY + gridSize, img.height)
        count == Max(endX - startX, 0) * Max(endY - startY, 0)
    IN  IF count = 0 THEN None
        ELSE Some([x |-> startX, y |-> startY,
                   width |-> endX - startX, height |-> endY - startY,
                   color |-> [r |-> Frac(cellTotal(img, 1, startX, endX, startY, endY),
                                         count * 255),
                              g |-> Frac(cellTotal(img, 2, startX, endX, startY, endY),
                                         count * 255),
                              b |-> Frac(cellTotal(img, 3, startX, endX, startY, endY),
                                         count * 255)],
                   pixelCount |-> count])

\* variant: b is adjacent only when it starts where a ends
shouldMerge_oneSided(a, b, cfg) ==
    LET colorDiff == FAdd(FAdd(FScale(FAbs(FSub(a.color.r, b.color.r)), 255),
                               FScale(FAbs(FSub(a.color.g, b.color.g)), 255)),
                          FScale(FAbs(FSub(a.color.b, b.color.b)), 255))
        gap       == 5
        adjacentX == Abs(a.x + a.width - b.x) <= gap
        adjacentY == Abs(a.y + a.height - b.y) <= gap
        overlapX  == a.x < b.x + b.width /\ a.x + a.width > b.x
        overlapY  == a.y < b.y + b.height /\ a.y + a.height > b.y
    IN  IF FGreater(colorDiff, <<cfg.colorThreshold * 3, 1>>) THEN FALSE
        ELSE (adjacentX /\ overlapY) \/ (adjacentY /\ overlapX)

shouldMerge(a, b, cfg) ==
    LET colorDiff == FAdd(FAdd(FScale(FAbs(FSub(a.color.r, b.color.r)), 255),
                               FScale(FAbs(FSub(a.color.g, b.color.g)), 255)),
                          FScale(FAbs(FSub(a.color.b, b.color.b)), 255))
        gap       == 5
        adjacentX == Abs(a.x + a.width - b.x) <= gap \/ Abs(b.x + b.width - a.x) <= gap
        adjacentY == Abs(a.y + a.height - b.y) <= gap \/ Abs(b.y + b.height - a.y) <= gap
        overlapX  == a.x < b.x + b.width /\ a.x + a.width > b.x
        overlapY  == a.y < b.y + b.height /\ a.y + a.height > b.y
    IN  IF FGreater(colorDiff, <<cfg.colorThreshold * 3, 1>>) THEN FALSE
        ELSE (adjacentX /\ overlapY) \/ (adjacentY /\ overlapX)

\* variant: the color is the plain mean of the two colors
mergeTwo_plainMean(a, b) ==
    LET x      == Min(a.x, b.x)
        y      == Min(a.y, b.y)
        right  == Max(a.x + a.width, b.x + b.width)
        bottom == Max(a.y + a.height, b.y + b.height)
        avg(ca, cb) == FDivInt(FAdd(ca, cb), 2)
    IN  [x |-> x, y |-> y, width |-> right - x, height |-> bottom - y,
         color |-> [r |-> avg(a.color.r, b.color.r),
                    g |-> avg(a.color.g, b.color.g),
                    b |-> avg(a.color.b, b.color.b)],
         pixelCount |-> a.pixelCount + b.pixelCount]

\* variant: the merged region keeps the box of a
mergeTwo_firstBox(a, b) ==
    LET totalPixels == a.pixelCount + b.pixelCount
        avg(ca, cb) == FDivInt(FAdd(FScale(ca, a.pixelCount), FScale(cb, b.pixelCount)),
                               totalPixels)
    IN  [x |-> a.x, y |-> a.y, width |-> a.width, height |-> a.height,
         color |-> [r |-> avg(a.color.r, b.color.r),
                    g |-> avg(a.color.g, b.color.g),
                    b |-> avg(a.color.b, b.color.b)],
         pixelCount |-> totalPixels]

mergeTwo(a, b) ==
    LET x           == Min(a.x, b.x)
        y           == Min(a.y, b.y)
        right       == Max(a.x + a.width, b.x + b.width)
        bottom      == Max(a.y + a.height, b.y + b.height)
        totalPixels == a.pixelCount + b.pixelCount
        avg(ca, cb) == FDivInt(FAdd(FScale(ca, a.pixelCount), FScale(cb, b.pixelCount)),
                               totalPixels)
    IN  [x |-> x, y |-> y, width |-> right - x, height |-> bottom - y,
         color |-> [r |-> avg(a.color.r, b.color.r),
                    g |-> avg(a.color.g, b.color.g),
                    b |-> avg(a.color.b, b.color.b)],
         pixelCount |-> totalPixels]

\* the inner loop of mergeRegions, from index j on; absorbed lists the
\* indices that went into current
RECURSIVE mergeInner(_, _, _, _, _, _)
mergeInner(regions, j, current, used, absorbed, cfg) ==
    IF j > Len(regions)
    THEN [current |-> current, used |-> used, absorbed |-> absorbed]
    ELSE IF j \in used THEN mergeInner(regions, j + 1, current, used, absorbed, cfg)
    ELSE IF shouldMerge(current, regions[j], cfg)
         THEN mergeInner(regions, j + 1, mergeTwo(current, regions[j]),
                         used \cup {j}, Append(absorbed, j), cfg)
    ELSE mergeInner(regions, j + 1, current, used, absorbed, cfg)

\* the outer loop of mergeRegions, from index i on; groups[k] lists the
\* input indices that went into merged[k]
RECURSIVE mergeOuter(_, _, _, _, _, _)
mergeOuter(regions, i, merged, used, groups, cfg) ==
    IF i > Len(regions) THEN [merged |-> merged, groups |-> groups]
    ELSE IF i \in used THEN mergeOuter(regions, i + 1, merged, used, groups, cfg)
    ELSE Eval(mergeInner(regions, i + 1, regions[i], used \cup {i}, <<i>>, cfg),
              LAMBDA r : mergeOuter(regions, i + 1, Append(merged, r.current), r.used,
                                    Append(groups, r.absorbed), cfg))

mergeRegions(regions, cfg) ==
    IF Len(regions) <= 1 THEN regions
    ELSE mergeOuter(regions, 1, <<>>, {}, <<>>, cfg).merged

\* history of mergeRegions: which input indices each output region holds
mergeGroups(regions, cfg) ==
    IF Len(regions) <= 1 THEN [k \in 1..Len(regions) |-> <<k>>]
    ELSE mergeOuter(regions, 1, <<>>, {}, <<>>, cfg).groups

\* Math.max(20, Math.min(width, height) / 20); the quotient is at most 20,
\* hence immaterial, for every image with min(width, height) <= 400
gridSizeOf(img) == Max(20, Min(img.width, img.height) \div 20)

\* the two nested scanning loops of detectRegions, cell (x, y) onwards;
\* no cell is met twice, so `visited` never skips one; scanned counts the
\* calls of findRegion
RECURSIVE scanCells(_, _, _, _, _, _, _)
scanCells(img, gridSize, x, y, regions, scanned, cfg) ==
    IF y >= img.height THEN [regions |-> regions, scanned |-> scanned]
    ELSE IF x >= img.width
    THEN scanCells(img, gridSize, 0, y + gridSize, regions, scanned, cfg)
    ELSE LET region == findRegion(img, x, y, gridSize)
             next   == IF region # None /\ region[1].pixelCount >= cfg.minRegionSize
                       THEN Append(regions, region[1]) ELSE regions
         IN  IF Len(next) >= cfg.maxRegions
             THEN [regions |-> next, scanned |-> scanned + 1]
             ELSE scanCells(img, gridSize, x + gridSize, y, next, scanned + 1, cfg)

\* the candidate regions of detectRegions before merging, and the number
\* of grid cells examined for them
candidateRegions(img, cfg) == scanCells(img, gridSizeOf(img), 0, 0, <<>>, 0, cfg)

detectRegions(img, cfg) == mergeRegions(candidateRegions(img, cfg).regions, cfg)

convertRegionsToElements(regions) ==
    [i \in 1..Len(regions) |->
        [type |-> "rectangle", x |-> regions[i].x, y |-> regions[i].y,
         width |-> regions[i].width, height |-> regions[i].height,
         color |-> Some(regions[i].color), text |-> None, fontSize |-> None,
         layout |-> None]]

\* Math.round(v / 32) * 32
quantize(v) == ((v + 16) \div 32) * 32

\* extractDominantColors: every step-th pixel in row-major order is sampled
extractDominantColors(img) ==
    LET totalPixels == img.width * img.height
        step        == Max(4, totalPixels \div 100000)
        samples     == {p \in 0..(totalPixels - 1) : p % step = 0}
        keyOf(p)    == LET c == Pixel(img, p % img.width, p \div img.width)
                       IN  <<quantize(c[1]), quantize(c[2]), quantize(c[3])>>
        firsts      == {p \in samples : \A q \in samples : keyOf(q) = keyOf(p) => p <= q}
        entry(p)    == [first |-> p,
                        negCount |-> -Cardinality({q \in samples : keyOf(q) = keyOf(p)}),
                        color |-> [r |-> Frac(keyOf(p)[1], 255),
                                   g |-> Frac(keyOf(p)[2], 255),
                                   b |-> Frac(keyOf(p)[3], 255)]]
        RECURSIVE inOrder(_)
        inOrder(ps) == IF ps = {} THEN <<>>
                       ELSE LET m == CHOOSE p \in ps : \A q \in ps : p <= q
                            IN  <<entry(m)>> \o inOrder(ps \ {m})
        sorted      == SortByKey(inOrder(firsts), "negCount")
    IN  [i \in 1..Min(5, Len(sorted)) |-> sorted[i].color]

failure(msg) ==
    [width |-> 0, height |-> 0, elements |-> <<>>, success |-> FALSE,
     error |-> Some(msg), dominantColors |-> None, layoutStructure |-> None]

\* the try block of LocalImageProcessor.analyze; decode tells how image
\* loading goes: "ok", "load_error" (img.onerror) or "no_context"
LocalImageProcessor_analyzeBody(img, decode, cfg) ==
    IF decode = "load_error" THEN Throw(<<"image load failed">>)
    ELSE IF decode = "no_context" THEN Throw(<<"cannot create canvas context">>)
    ELSE Return([width |-> img.width, height |-> img.height,
                 elements |-> convertRegionsToElements(detectRegions(img, cfg)),
                 success |-> TRUE, error |-> None,
                 dominantColors |-> Some(extractDominantColors(img)),
                 layoutStructure |-> None])

\* variant: no catch block
LocalImageProcessor_analyze_noCatch(img, decode, cfg) ==
    LocalImageProcessor_analyzeBody(img, decode, cfg)

\* try { body } catch (error) { return failure }
LocalImageProcessor_analyze(img, decode, cfg) ==
    LET body == LocalImageProcessor_analyzeBody(img, decode, cfg)
    IN  IF body.thrown
        THEN Return(failure(<<"local image processing failed">> \o body.error))
        ELSE body

----------------------------------------------------------------------------
(* openApiVisionService *)

\* constructor of OpenApiVisionService: throws without endpoint or apiKey
OpenApiVisionService(endpoint, apiKey) ==
    IF endpoint = "" \/ apiKey = ""
    THEN Throw(<<"OpenAPI config lacks endpoint or apiKey">>)
    ELSE Return([endpoint |-> endpoint, apiKey |-> apiKey])

OpenApiVisionService_isAvailable(service) ==
    service.endpoint # "" /\ service.apiKey # ""

\* A string that the code inspects character by character (a type name, a
\* color) is the sequence of its characters.
UpperChars ==
    <<"A", "B", "C", "D", "E", "F", "G", "H", "I", "J", "K", "L", "M",
      "N", "O", "P", "Q", "R", "S", "T", "U", "V", "W", "X", "Y", "Z">>

LowerChars ==
    <<"a", "b", "c", "d", "e", "f", "g", "h", "i", "j", "k", "l", "m",
      "n", "o", "p", "q", "r", "s", "t", "u", "v", "w", "x", "y", "z">>

lowerChar(c) ==
    IF \E n \in 1..26 : UpperChars[n] = c
    THEN LowerChars[CHOOSE n \in 1..26 : UpperChars[n] = c]
    ELSE c

\* String.prototype.toLowerCase
toLowerCase(str) == [i \in 1..Len(str) |-> lowerChar(str[i])]

\* the property name that a sequence of characters spells
RECURSIVE Join(_)
Join(str) == IF str = <<>> THEN "" ELSE Head(str) \o Join(Tail(str))

typeMap ==
    [rectangle |-> "rectangle", rect |-> "rectangle", square |-> "rectangle",
     circle |-> "circle", ellipse |-> "circle", oval |-> "circle",
     text |-> "text", label |-> "text", button |-> "rectangle",
     image |-> "image", img |-> "image", picture |-> "image",
     frame |-> "frame", container |-> "frame", div |-> "frame",
     line |-> "line", border |-> "line"]

\* typeMap is an object literal: a property lookup that misses its own keys
\* continues in Object.prototype, whose properties are all truthy
ObjectPrototypeKeys ==
    {"constructor", "__proto__", "hasOwnProperty", "isPrototypeOf",
     "propertyIsEnumerable", "toLocaleString", "toString", "valueOf",
     "__defineGetter__", "__defineSetter__", "__lookupGetter__",
     "__lookupSetter__"}

\* typeMap[type.toLowerCase()] || "rectangle"; type is None when the element
\* has no type (undefined.toLowerCase raises a TypeError); an inherited
\* property is returned as it is, written "Object.prototype.<key>" here
normalizeElementType(type) ==
    IF type = None
    THEN Throw(<<"Cannot read properties of undefined (reading 'toLowerCase')">>)
    ELSE LET key == Join(toLowerCase(type[1]))
         IN  IF key \in DOMAIN typeMap THEN Return(typeMap[key])
             ELSE IF key \in ObjectPrototypeKeys
                  THEN Return("Object.prototype." \o key)
             ELSE Return("rectangle")

\* value of a hexadecimal digit, -1 for any other character
hexValue(c) ==
    CASE c \in {"0", "1", "2", "3", "4", "5", "6", "7", "8", "9"} ->
             (CHOOSE n \in 0..9 :
                  <<"0", "1", "2", "3", "4", "5", "6", "7", "8", "9">>[n + 1] = c)
      [] c \in {"a", "A"} -> 10
      [] c \in {"b", "B"} -> 11
      [] c \in {"c", "C"} -> 12
      [] c \in {"d", "D"} -> 13
      [] c \in {"e", "E"} -> 14
      [] c \in {"f", "F"} -> 15
      [] OTHER -> -1

\* parseInt(c1 + c2, 16) / 255.  parseInt skips leading white space, takes
\* a sign, strips a 0x prefix, reads the longest run of hexadecimal digits
\* and gives NaN when that run is empty.
parseHexPair(c1, c2) ==
    IF c1 = " "
    THEN IF hexValue(c2) < 0 THEN <<0, 0>> ELSE Frac(hexValue(c2), 255)
    ELSE IF c1 \in {"+", "-"}
    THEN IF hexValue(c2) < 0 THEN <<0, 0>>
         ELSE Frac((IF c1 = "-" THEN -1 ELSE 1) * hexValue(c2), 255)
    ELSE IF c1 = "0" /\ c2 \in {"x", "X"} THEN <<0, 0>>
    ELSE IF hexValue(c1) < 0 THEN <<0, 0>>
    ELSE IF hexValue(c2) < 0 THEN Frac(hexValue(c1), 255)
    ELSE Frac(16 * hexValue(c1) + hexValue(c2), 255)

\* colorStr.replace("#", ""): removes the first "#"
RECURSIVE removeFirstHash(_)
removeFirstHash(str) ==
    IF str = <<>> THEN <<>>
    ELSE IF Head(str) = "#" THEN Tail(str)
    ELSE <<Head(str)>> \o removeFirstHash(Tail(str))

parseColor(colorStr) ==
    LET hex == removeFirstHash(colorStr)
    IN  IF Len(hex) = 6
        THEN [r |-> parseHexPair(hex[1], hex[2]),
              g |-> parseHexPair(hex[3], hex[4]),
              b |-> parseHexPair(hex[5], hex[6])]
        ELSE IF Len(hex) = 3
        THEN [r |-> parseHexPair(hex[1], hex[1]),
              g |-> parseHexPair(hex[2], hex[2]),
              b |-> parseHexPair(hex[3], hex[3])]
        ELSE [r |-> <<1, 2>>, g |-> <<1, 2>>, b |-> <<1, 2>>]

\* v || 0 on an optional number
orZero(v) == IF v = None THEN 0 ELSE v[1]

\* convertElement; elem.color ? parseColor(elem.color) : undefined
convertElement(elem) ==
    LET type == normalizeElementType(elem.type)
    IN  IF type.thrown THEN type
        ELSE Return([type |-> type.value[1],
                     x |-> orZero(elem.x), y |-> orZero(elem.y),
                     width |-> orZero(elem.width), height |-> orZero(elem.height),
                     color |-> IF elem.color = None \/ elem.color = Some(<<>>) THEN None
                               ELSE Some(parseColor(elem.color[1])),
                     text |-> elem.text, fontSize |-> elem.fontSize,
                     layout |-> None])

\* The text of a reply is a sequence of atoms [k, n, s, e]:
\*   "{" "}" "[" "]" ":" ","   the punctuation of JSON
\*   "ws"        a run of white space
\*   "fence"     three backquotes
\*   "json"      the word json
\*   "prose"     a run of other characters, free of braces, brackets,
\*               quotes and backquotes
\*   "null"      the literal null
\*   "number"    a number literal, n its value
\*   "string"    a string literal, s its value
\*   "element"   the text of one element object {"type": ..., ...}, free of
\*               brackets and of inner braces, e the fields it gives
TextAtom(k) == [k |-> k, n |-> 0, s |-> "", e |-> <<>>]

NumberAtom(n) == [k |-> "number", n |-> n, s |-> "", e |-> <<>>]

StringAtom(s) == [k |-> "string", n |-> 0, s |-> s, e |-> <<>>]

ElementAtom(e) == [k |-> "element", n |-> 0, s |-> "", e |-> <<e>>]

\* values of JSON.parse
JValue(t, n, s, items, members, e) ==
    [t |-> t, n |-> n, s |-> s, items |-> items, members |-> members, e |-> e]

JNull == JValue("null", 0, "", <<>>, <<>>, <<>>)

JNumber(n) == JValue("number", n, "", <<>>, <<>>, <<>>)

JString(s) == JValue("string", 0, s, <<>>, <<>>, <<>>)

JArray(items) == JValue("array", 0, "", items, <<>>, <<>>)

JObject(members) == JValue("object", 0, "", <<>>, members, <<>>)

JElement(e) == JValue("element", 0, "", <<>>, <<>>, <<e>>)

\* \s*: the first position from p on that is not white space
RECURSIVE skipWs(_, _)
skipWs(text, p) ==
    IF p <= Len(text) /\ text[p].k = "ws" THEN skipWs(text, p + 1) ELSE p

Parsed(next, v) == [ok |-> TRUE, next |-> next, value |-> <<v>>]

NoParse == [ok |-> FALSE, next |-> 0, value |-> <<>>]

\* the grammar of JSON on atoms: parseValue reads one value at position p
RECURSIVE parseValue(_, _)
RECURSIVE parseItems(_, _, _)
RECURSIVE parseMembers(_, _, _)
parseValue(text, p) ==
    IF p > Len(text) THEN NoParse
    ELSE CASE text[p].k = "number"  -> Parsed(p + 1, JNumber(text[p].n))
           [] text[p].k = "string"  -> Parsed(p + 1, JString(text[p].s))
           [] text[p].k = "null"    -> Parsed(p + 1, JNull)
           [] text[p].k = "element" -> Parsed(p + 1, JElement(text[p].e[1]))
           [] text[p].k = "["       ->
                Eval(skipWs(text, p + 1), LAMBDA q :
                    IF q <= Len(text) /\ text[q].k = "]"
                    THEN Parsed(q + 1, JArray(<<>>))
                    ELSE parseItems(text, q, <<>>))
           [] text[p].k = "{"       ->
                Eval(skipWs(text, p + 1), LAMBDA q :
                    IF q <= Len(text) /\ text[q].k = "}"
                    THEN Parsed(q + 1, JObject(<<>>))
                    ELSE parseMembers(text, q, <<>>))
           [] OTHER -> NoParse

\* what follows the value v of an array: the closing bracket or a comma
\* and the next item
afterItem(text, v, items) ==
    IF ~v.ok THEN NoParse
    ELSE Eval(skipWs(text, v.next), LAMBDA q :
             IF q > Len(text) THEN NoParse
             ELSE IF text[q].k = "]"
                  THEN Parsed(q + 1, JArray(Append(items, v.value[1])))
             ELSE IF text[q].k = ","
                  THEN Eval(skipWs(text, q + 1), LAMBDA n :
                           parseItems(text, n, Append(items, v.value[1])))
             ELSE NoParse)

\* the items of an array from the value at p on, up to the closing bracket
parseItems(text, p, items) ==
    Eval(parseValue(text, p), LAMBDA v : afterItem(text, v, items))

\* what follows the value v of the member `key`: the closing brace or a
\* comma and the next member
afterMember(text, key, v, members) ==
    IF ~v.ok THEN NoParse
    ELSE Eval(skipWs(text, v.next), LAMBDA q :
             IF q > Len(text) THEN NoParse
             ELSE IF text[q].k = "}"
                  THEN Parsed(q + 1, JObject(Append(members,
                                                    [key |-> key, value |-> v.value[1]])))
             ELSE IF text[q].k = ","
                  THEN Eval(skipWs(text, q + 1), LAMBDA n :
                           parseMembers(text, n,
                                        Append(members,
                                               [key |-> key, value |-> v.value[1]])))
             ELSE NoParse)

\* the members of an object from the key at p on, up to the closing brace
parseMembers(text, p, members) ==
    IF p > Len(text) THEN NoParse
    ELSE IF text[p].k # "string" THEN NoParse
    ELSE Eval(skipWs(text, p + 1), LAMBDA c :
             IF c > Len(text) THEN NoParse
             ELSE IF text[c].k # ":" THEN NoParse
             ELSE Eval(skipWs(text, c + 1), LAMBDA n :
                      Eval(parseValue(text, n), LAMBDA v :
                          afterMember(text, text[p].s, v, members))))

\* JSON.parse: one value, white space allowed around it, nothing else
JSON_parse(content) ==
    Eval(content, LAMBDA text :
        Eval(parseValue(text, skipWs(text, 1)), LAMBDA v :
            IF v.ok /\ skipWs(text, v.next) = Len(text) + 1
            THEN Return(v.value[1])
            ELSE Throw(<<"Unexpected token in JSON">>)))

hasBrace(atom) == atom.k \in {"{", "}", "element"}

\* the capture of /```(?:json)?\s*(\{[\s\S]*?\})\s*```/ for a match that
\* starts at atom i, None when there is none: the text from the brace that
\* follows the fence to the first closing brace that white space and a
\* fence follow
codeBlockAt(text, i) ==
    IF text[i].k # "fence" THEN None
    ELSE LET p    == IF i + 1 <= Len(text) /\ text[i + 1].k = "json"
                     THEN i + 2 ELSE i + 1
             q    == skipWs(text, p)
             ends == {k \in q..Len(text) :
                         /\ text[k].k \in {"}", "element"}
                         /\ (k > q \/ text[q].k = "element")
                         /\ skipWs(text, k + 1) <= Len(text)
                         /\ text[skipWs(text, k + 1)].k = "fence"}
         IN  IF q > Len(text) THEN None
             ELSE IF text[q].k \notin {"{", "element"} \/ ends = {} THEN None
             ELSE Some(SubSeq(text, q, CHOOSE k \in ends : \A m \in ends : k <= m))

\* content.match(codeBlock)[1]: the leftmost match
codeBlockMatch(text) ==
    LET starts == {i \in 1..Len(text) : Len(codeBlockAt(text, i)) = 1}
    IN  IF starts = {} THEN None
        ELSE codeBlockAt(text, CHOOSE i \in starts : \A m \in starts : i <= m)

\* the first position from p on that holds a brace, Len(text) + 1 if none
RECURSIVE firstBrace(_, _)
firstBrace(text, p) ==
    IF p <= Len(text) /\ ~hasBrace(text[p]) THEN firstBrace(text, p + 1) ELSE p

\* the texts of the replies that hold the character "]"
BracketTexts == {"[OK]"}

\* the atom holds the character "]": the punctuation itself, or an element
\* object whose text does
holdsBracketClose(atom) ==
    \/ atom.k = "]"
    \/ /\ atom.k = "element"
       /\ atom.e[1].text # None
       /\ atom.e[1].text[1] \in BracketTexts

\* the first position from p on that holds "]", Len(text) + 1 if none
RECURSIVE firstBracketClose(_, _)
firstBracketClose(text, p) ==
    IF p <= Len(text) /\ ~holdsBracketClose(text[p])
    THEN firstBracketClose(text, p + 1) ELSE p

\* where a match of /"elements"\s*:\s*\[[^\]]*\][^{}]*\}/ that starts with
\* the string at position e ends, 0 when there is none; when the first "]"
\* is inside an element object, the first brace after it is the one that
\* closes that object
elementsTail(text, e) ==
    LET c == skipWs(text, e + 1)
        b == skipWs(text, c + 1)
        r == firstBracketClose(text, b + 1)
        z == IF r <= Len(text) /\ text[r].k = "element" THEN r
             ELSE firstBrace(text, r + 1)
    IN  IF c > Len(text) THEN 0
        ELSE IF text[c].k # ":" \/ b > Len(text) THEN 0
        ELSE IF text[b].k # "[" \/ r > Len(text) \/ z > Len(text) THEN 0
        ELSE IF text[z].k = "}" \/ z = r THEN z ELSE 0

\* the match of /\{[^{}]*"elements"\s*:\s*\[[^\]]*\][^{}]*\}/ that starts
\* at atom i, None when there is none; [^{}]* is greedy: the last
\* "elements" before the next brace that completes a match is taken
jsonMatchAt(text, i) ==
    IF text[i].k # "{" THEN None
    ELSE LET occs == {e \in (i + 1)..(firstBrace(text, i + 1) - 1) :
                         /\ text[e].k = "string"
                         /\ text[e].s = "elements"
                         /\ elementsTail(text, e) # 0}
         IN  IF occs = {} THEN None
             ELSE Some(SubSeq(text, i,
                              elementsTail(text, CHOOSE e \in occs :
                                                     \A m \in occs : m <= e)))

\* content.match(jsonObject)[0]: the leftmost match
jsonMatch(text) ==
    LET starts == {i \in 1..Len(text) : Len(jsonMatchAt(text, i)) = 1}
    IN  IF starts = {} THEN None
        ELSE jsonMatchAt(text, CHOOSE i \in starts : \A m \in starts : i <= m)

\* parsed[key] on an object value: the last member with that key, None when
\* the object has none
memberOf(parsed, key) ==
    LET found == {i \in 1..Len(parsed.members) : parsed.members[i].key = key}
    IN  IF found = {} THEN None
        ELSE Some(parsed.members[CHOOSE i \in found : \A m \in found : m <= i].value)

\* items.map((elem) => this.convertElement(elem)): an item that is not an
\* element object has no type (a TypeError for null as well)
RECURSIVE convertAll(_, _)
convertAll(items, done) ==
    IF items = <<>> THEN Return(done)
    ELSE IF Head(items).t # "element"
    THEN Throw(<<"Cannot read properties of undefined (reading 'toLowerCase')">>)
    ELSE LET converted == convertElement(Head(items).e[1])
         IN  IF converted.thrown THEN converted
             ELSE convertAll(Tail(items), Append(done, converted.value[1]))

notAFunction == Throw(<<"(parsed.elements || []).map is not a function">>)

\* (parsed.elements || []).map(convertElement)
responseElements(parsed) ==
    CASE parsed.t = "null" ->
             Throw(<<"Cannot read properties of null (reading 'elements')">>)
      [] parsed.t \in {"number", "string", "array", "element"} -> Return(<<>>)
      [] parsed.t = "object" ->
             LET v == memberOf(parsed, "elements")
             IN  IF Len(v) = 0 THEN Return(<<>>)
                 ELSE CASE v[1].t = "null"   -> Return(<<>>)
                        [] v[1].t = "number" ->
                               IF v[1].n = 0 THEN Return(<<>>) ELSE notAFunction
                        [] v[1].t = "string" ->
                               IF v[1].s = "" THEN Return(<<>>) ELSE notAFunction
                        [] v[1].t = "array"  -> convertAll(v[1].items, <<>>)
                        [] OTHER             -> notAFunction

\* parsed.width || 0 and parsed.height || 0, for replies that give these
\* members as numbers or not at all
responseSize(parsed, key) ==
    CASE parsed.t = "element" -> orZero(parsed.e[1][key])
      [] parsed.t \in {"number", "string", "array"} -> 0
      [] parsed.t = "object" ->
             LET v == memberOf(parsed, key)
             IN  IF Len(v) = 0 THEN 0
                 ELSE CASE v[1].t = "number" -> v[1].n
                        [] v[1].t = "null"   -> 0

\* lines 196-211 of parseResponse: the three extraction strategies; a fenced
\* block that matches is parsed without a catch of its own
extractJson(content) ==
    Eval(content, LAMBDA text :
        Eval(JSON_parse(text), LAMBDA direct :
            IF ~direct.thrown THEN direct
            ELSE Eval(codeBlockMatch(text), LAMBDA codeBlock :
                     IF Len(codeBlock) = 1 THEN JSON_parse(codeBlock[1])
                     ELSE Eval(jsonMatch(text), LAMBDA json :
                              IF Len(json) = 0
                              THEN Throw(<<"cannot extract JSON from the response">>)
                              ELSE JSON_parse(json[1])))))

\* variant: a reply from which nothing can be extracted counts as an empty
\* analysis
parseResponse_bestEffort(content) ==
    Eval(extractJson(content), LAMBDA parsed :
        IF parsed.thrown
        THEN Return([width |-> 0, height |-> 0, elements |-> <<>>,
                     success |-> TRUE, error |-> None,
                     dominantColors |-> None, layoutStructure |-> None])
        ELSE Eval(responseElements(parsed.value[1]), LAMBDA elements :
                 IF elements.thrown
                 THEN Throw(<<"response parse failed">> \o elements.error)
                 ELSE Return([width |-> responseSize(parsed.value[1], "width"),
                              height |-> responseSize(parsed.value[1], "height"),
                              elements |-> elements.value[1],
                              success |-> TRUE, error |-> None,
                              dominantColors |-> None, layoutStructure |-> None])))

\* parseResponse: every error of the try block is thrown again with the
\* parse-failure prefix
parseResponse(content) ==
    Eval(extractJson(content), LAMBDA parsed :
        IF parsed.thrown
        THEN Throw(<<"response parse failed">> \o parsed.error)
        ELSE Eval(responseElements(parsed.value[1]), LAMBDA elements :
                 IF elements.thrown
                 THEN Throw(<<"response parse failed">> \o elements.error)
                 ELSE Return([width |-> responseSize(parsed.value[1], "width"),
                              height |-> responseSize(parsed.value[1], "height"),
                              elements |-> elements.value[1],
                              success |-> TRUE, error |-> None,
                              dominantColors |-> None, layoutStructure |-> None])))

\* variant: a request that was aborted resolves with an empty analysis
sendRequest_ignoresAbort(response) ==
    CASE response.kind = "network_error" -> Throw(<<"Failed to fetch">>)
      [] response.kind = "timeout"       ->
             Return(<<TextAtom("{"), StringAtom("elements"), TextAtom(":"),
                      TextAtom("["), TextAtom("]"), TextAtom("}")>>)
      [] response.kind = "http_error"    -> Throw(<<"API request failed", "500">>)
      [] response.kind = "bad_json"      -> Throw(<<"Unexpected token in JSON">>)
      [] response.kind = "no_content"    -> Throw(<<"API response format invalid">>)
      [] response.kind = "content"       -> Return(response.content)

\* sendRequest: one fetch, whose outcome is response.kind: the fetch or a
\* body read rejects ("network_error"), the timer aborts it ("timeout"), the
\* status is not 2xx ("http_error"), the body is not JSON ("bad_json"), it
\* has no choices[0].message.content ("no_content"), or it has ("content")
sendRequest(response) ==
    CASE response.kind = "network_error" -> Throw(<<"Failed to fetch">>)
      [] response.kind = "timeout"       -> Throw(<<"The operation was aborted">>)
      [] response.kind = "http_error"    -> Throw(<<"API request failed", "500">>)
      [] response.kind = "bad_json"      -> Throw(<<"Unexpected token in JSON">>)
      [] response.kind = "no_content"    -> Throw(<<"API response format invalid">>)
      [] response.kind = "content"       -> Return(response.content)

\* the try block of OpenApiVisionService.analyze
OpenApiVisionService_analyzeBody(response) ==
    Eval(sendRequest(response), LAMBDA sent :
        IF sent.thrown THEN sent ELSE parseResponse(sent.value[1]))

\* try { body } catch (error) { return failure }
OpenApiVisionService_analyze(response) ==
    Eval(OpenApiVisionService_analyzeBody(response), LAMBDA body :
        IF body.thrown
        THEN Return(failure(<<"OpenAPI service call failed">> \o body.error))
        ELSE body)

\* variant: a request that ended with a non-2xx status is issued again
pcAfterRequest_retry(response) ==
    IF response.kind = "http_error" THEN "fetching" ELSE "returned"

\* where analyze continues once its request has ended: lines 88-101 hold
\* no loop, every outcome leads to a return
pcAfterRequest(response) == "returned"

----------------------------------------------------------------------------
(* services/index.ts: ImageRecognitionManager *)

\* this.config = { enableLocalFallback: config.enableLocalFallback ?? true,
\*                 ...config }
\* A key of the given config is "absent", or present with the value
\* "undefined", "true" or "false"; the spread copies every present key.
managerConfig(given) ==
    [given EXCEPT !.enableLocalFallback =
        IF given.enableLocalFallback = "absent" THEN "true"
        ELSE given.enableLocalFallback]

\* if (config.openApiKey) { try { new OpenApiVisionService } catch { warn } }
managerOpenApiService(given) ==
    IF given.openApiKey = "" THEN None
    ELSE LET made == OpenApiVisionService(given.openApiEndpoint, given.openApiKey)
         IN  IF made.thrown THEN None ELSE made.value

managerLocalProcessor(cfg) ==
    LocalImageProcessor(cfg.colorThreshold, cfg.minRegionSize, None)

truthy(v) == v = "true"

tryLocalBody(img, dom, decode, cfg) ==
    IF ~LocalImageProcessor_isAvailable(dom)
    THEN Return(failure(<<"local processor unavailable">>))
    ELSE LocalImageProcessor_analyze(img, decode, managerLocalProcessor(cfg))

\* try { body } catch (error) { return failure }
tryLocal(img, dom, decode, cfg) ==
    LET body == tryLocalBody(img, dom, decode, cfg)
    IN  IF body.thrown
        THEN Return(failure(<<"local processing failed">> \o body.error))
        ELSE body

tryOpenApiBody(service, response) ==
    IF ~OpenApiVisionService_isAvailable(service)
    THEN Return(failure(<<"OpenAPI service unavailable">>))
    ELSE OpenApiVisionService_analyze(response)

tryOpenApi(service, response) ==
    IF service = None THEN Return(failure(<<"OpenAPI service not configured">>))
    ELSE Eval(tryOpenApiBody(service[1], response), LAMBDA body :
             IF body.thrown
             THEN Return(failure(<<"OpenAPI service call failed">> \o body.error))
             ELSE body)

\* variant: the preference is ignored, a configured adapter is always used
useOpenApi_ignoresPreference(preferred, service) == service # None

\* variant: the adapter is not tested for null
useOpenApi_ignoresService(preferred, service) == preferred = "openapi"

\* variant: the adapter is skipped while another call is waiting for it
useOpenApi_unlessBusy(preferred, service) ==
    /\ preferred = "openapi"
    /\ service # None
    /\ pc # "tryOpenApi"
    /\ bPc # "tryOpenApi"

\* line 71: preferredService === "openapi" && this.openApiService
useOpenApi(preferred, service) == preferred = "openapi" /\ service # None

\* variant: no fallback at all
fallbackToLocal_never(res, cfg) == FALSE

\* variant: fallback whatever the configuration says
fallbackToLocal_always(res, cfg) == ~res.success

\* variant: a timed-out request is not eligible for the fallback
fallbackToLocal_exceptTimeout(res, cfg) ==
    /\ ~res.success
    /\ truthy(cfg.enableLocalFallback)
    /\ res.error # Some(<<"OpenAPI service call failed", "The operation was aborted">>)

\* line 74: !result.success && this.config.enableLocalFallback
fallbackToLocal(res, cfg) == ~res.success /\ truthy(cfg.enableLocalFallback)

\* where analyze continues after tryOpenApi has returned res (lines 73-83)
pcAfterTryOpenApi(res, cfg) ==
    IF fallbackToLocal(res, cfg) THEN "tryLocal" ELSE "layout"

\* variant: a failed local attempt is retried
pcAfterTryLocal_retry(res) == IF ~res.success THEN "tryLocal" ELSE "layout"

\* where analyze continues after tryLocal has returned res (lines 76-83)
pcAfterTryLocal(res) == "layout"

\* number of fetch calls tryOpenApi issues
tryOpenApiFetches(service) ==
    IF service # None /\ OpenApiVisionService_isAvailable(service[1]) THEN 1 ELSE 0

\* variant: the enableLayoutAnalysis flag is not tested
layoutPostPass_ignoresFlag(res, layoutOn) ==
    IF res.success /\ Len(res.elements) > 0
    THEN [res EXCEPT
            !.layoutStructure =
                Some(analyzeStructure(res.elements, res.width, res.height)),
            !.elements = generateAllConstraints(res.elements, res.width, res.height)]
    ELSE res

\* variant: the success flag is not tested
layoutPostPass_ignoresSuccess(res, layoutOn) ==
    IF layoutOn
    THEN [res EXCEPT
            !.layoutStructure =
                Some(analyzeStructure(res.elements, res.width, res.height)),
            !.elements = generateAllConstraints(res.elements, res.width, res.height)]
    ELSE res

\* lines 83-98 of analyze: the layout post-pass on `result`
layoutPostPass(res, layoutOn) ==
    IF res.success /\ layoutOn /\ Len(res.elements) > 0
    THEN [res EXCEPT
            !.layoutStructure =
                Some(analyzeStructure(res.elements, res.width, res.height)),
            !.elements = generateAllConstraints(res.elements, res.width, res.height)]
    ELSE res

----------------------------------------------------------------------------
(* main.ts: HostCommunicationManager *)

MAX_PENDING_MESSAGES == 100

\* a HostMessage; the timestamp tells the messages apart
HostMessage(type, timestamp) == [type |-> type, timestamp |-> timestamp]

\* an argument of pixso.ui.postMessage: data holds 0 or 1 HostMessage
UiPost(type, data) == [type |-> type, data |-> data]

\* the fields of the manager and its histories as one value
HostState(ready, pending, posts, dropped) ==
    [hostReady |-> ready, pendingMessages |-> pending, uiPosts |-> posts,
     droppedMessages |-> dropped]

\* variant: the queue is full only above MAX_PENDING_MESSAGES
sendToHost_fullLater(st, message) ==
    IF ~st.hostReady /\ message.type # "ping"
    THEN IF Len(st.pendingMessages) > MAX_PENDING_MESSAGES
         THEN [st EXCEPT
                  !.pendingMessages = Append(Tail(st.pendingMessages), message),
                  !.droppedMessages = Append(st.droppedMessages,
                                             Head(st.pendingMessages))]
         ELSE [st EXCEPT !.pendingMessages = Append(st.pendingMessages, message)]
    ELSE [st EXCEPT
             !.uiPosts = Append(st.uiPosts, UiPost("sandbox-to-host", Some(message)))]

\* sendToHost (lines 199-222)
sendToHost(st, message) ==
    IF ~st.hostReady /\ message.type # "ping"
    THEN IF Len(st.pendingMessages) >= MAX_PENDING_MESSAGES
         THEN [st EXCEPT
                  !.pendingMessages = Append(Tail(st.pendingMessages), message),
                  !.droppedMessages = Append(st.droppedMessages,
                                             Head(st.pendingMessages))]
         ELSE [st EXCEPT !.pendingMessages = Append(st.pendingMessages, message)]
    ELSE [st EXCEPT
             !.uiPosts = Append(st.uiPosts, UiPost("sandbox-to-host", Some(message)))]

\* flushPendingMessages (lines 227-234): shift and send while the queue is
\* not empty; it is called with hostReady true only
RECURSIVE flushPendingMessages(_)
flushPendingMessages(st) ==
    IF Len(st.pendingMessages) = 0 THEN st
    ELSE flushPendingMessages(
             sendToHost([st EXCEPT !.pendingMessages = Tail(st.pendingMessages)],
                        Head(st.pendingMessages)))

\* variant: a pong sends the pending messages as well
handleHostMessage_pongFlushes(st, type) ==
    CASE type = "host-ready" ->
             flushPendingMessages(
                 [st EXCEPT !.hostReady = TRUE,
                            !.uiPosts = Append(st.uiPosts, UiPost("host-ready", None))])
      [] type = "pong" -> flushPendingMessages([st EXCEPT !.hostReady = TRUE])
      [] type = "host-unmounting" ->
             [st EXCEPT !.hostReady = FALSE,
                        !.uiPosts = Append(st.uiPosts, UiPost("host-unmounting", None))]
      [] type = "host-status-response" ->
             [st EXCEPT !.uiPosts = Append(st.uiPosts, UiPost("host-status", None))]
      [] type = "custom-action-result" ->
             [st EXCEPT !.uiPosts = Append(st.uiPosts,
                                           UiPost("custom-action-result", None))]
      [] OTHER -> st

\* handleHostMessage (lines 118-171), by message.type
handleHostMessage(st, type) ==
    CASE type = "host-ready" ->
             flushPendingMessages(
                 [st EXCEPT !.hostReady = TRUE,
                            !.uiPosts = Append(st.uiPosts, UiPost("host-ready", None))])
      [] type = "pong" -> [st EXCEPT !.hostReady = TRUE]
      [] type = "host-unmounting" ->
             [st EXCEPT !.hostReady = FALSE,
                        !.uiPosts = Append(st.uiPosts, UiPost("host-unmounting", None))]
      [] type = "host-status-response" ->
             [st EXCEPT !.uiPosts = Append(st.uiPosts, UiPost("host-status", None))]
      [] type = "custom-action-result" ->
             [st EXCEPT !.uiPosts = Append(st.uiPosts,
                                           UiPost("custom-action-result", None))]
      [] OTHER -> st

----------------------------------------------------------------------------
(* main.ts: handleImageUpload *)

\* An error message is the set of the substrings it contains among those
\* the handler looks for: "timeout" stands for "超时" or "timeout", "canvas"
\* for "Canvas", "canvas", "沙箱", "sandbox" or "OpenAPI 模式", "analysis"
\* for "分析", "network" for "network" or "fetch".
ErrorKeywords == {"timeout", "canvas", "analysis", "network"}

\* lines 565-577: the error type of a message
errorTypeOf(errorMessage) ==
    IF "timeout" \in errorMessage THEN "TIMEOUT"
    ELSE IF "canvas" \in errorMessage THEN "CANVAS_ERROR"
    ELSE IF "analysis" \in errorMessage THEN "IMAGE_ANALYSIS"
    ELSE "UNKNOWN"

\* getErrorSuggestion (lines 48-78)
getErrorSuggestion(errorType, errorMessage) ==
    CASE errorType = "IMAGE_ANALYSIS"   -> "use a clearer image"
      [] errorType = "ELEMENT_CREATION" -> "use another image"
      [] errorType = "FONT_LOADING"     -> "font loading failed"
      [] errorType = "TIMEOUT"          -> "switch to OpenAPI mode (timeout)"
      [] errorType = "CANVAS_ERROR"     -> "switch to OpenAPI mode (sandbox)"
      [] OTHER ->
            IF "network" \in errorMessage THEN "check the network"
            ELSE IF "timeout" \in errorMessage THEN "switch to OpenAPI mode (timeout)"
            ELSE IF "canvas" \in errorMessage THEN "switch to OpenAPI mode (sandbox)"
            ELSE "refresh the plugin"

ProcessingPost(progress) ==
    [type |-> "processing", progress |-> progress, message |-> {}, suggestion |-> "",
     nodes |-> 0]

CompletePost(nodes) ==
    [type |-> "complete", progress |-> 0, message |-> {}, suggestion |-> "",
     nodes |-> nodes]

ErrorPost(message, suggestion) ==
    [type |-> "error", progress |-> 0, message |-> message, suggestion |-> suggestion,
     nodes |-> 0]

\* the post of the catch block (lines 561-591)
caughtPost(errorMessage) ==
    ErrorPost(errorMessage, getErrorSuggestion(errorTypeOf(errorMessage), errorMessage))

\* the message of the error withTimeout rejects with (lines 512-515)
timeoutMessage(processingMode) ==
    IF processingMode = "openapi" THEN {"timeout", "analysis"}
    ELSE {"timeout", "canvas", "analysis"}

\* variant: the key is not looked at
missingApiKey_never(settings) == FALSE

\* line 485: processingMode === "openapi" && !settings?.openApiKey
missingApiKey(settings) == settings.processingMode = "openapi" /\ ~settings.openApiKey

----------------------------------------------------------------------------
(* utils/logger.ts *)

\* enum LogLevel (lines 9-14)
LogLevel == [DEBUG |-> 0, INFO |-> 1, WARN |-> 2, ERROR |-> 3]

\* a LogEntry: its level, and the number of the call as its timestamp
LogEntry(level, timestamp) == [level |-> level, timestamp |-> timestamp]

LoggerState(ls, min, max, n, given) ==
    [logs |-> ls, minLevel |-> min, maxEntries |-> max, listeners |-> n,
     delivered |-> given]

\* Logger.configure (lines 50-60); a field of config holds 0 or 1 values
configure(st, cfg) ==
    LoggerState(st.logs,
                IF cfg.minLevel # None THEN cfg.minLevel[1] ELSE st.minLevel,
                IF cfg.maxEntries # None THEN cfg.maxEntries[1] ELSE st.maxEntries,
                st.listeners, st.delivered)

\* Logger.log (lines 79-107): push, one shift when over the limit, then
\* the listeners
log(st, level, timestamp) ==
    IF level < st.minLevel THEN st
    ELSE LoggerState(IF Len(st.logs) + 1 > st.maxEntries
                     THEN Tail(Append(st.logs, LogEntry(level, timestamp)))
                     ELSE Append(st.logs, LogEntry(level, timestamp)),
                     st.minLevel, st.maxEntries, st.listeners,
                     IF st.listeners > 0
                     THEN Append(st.delivered, LogEntry(level, timestamp))
                     ELSE st.delivered)

----------------------------------------------------------------------------
(* utils/errorHandler.ts: withRetry *)

\* a value a promise can reject with: its message, and whether it is an
\* instance of Error
Thrown(message, isError) == [message |-> message, isError |-> isError]

\* line 201: error instanceof Error ? error : new Error(String(error))
asError(error) == Thrown(error.message, TRUE)

\* variant: the last attempt is followed by a wait as well
retryFollows_always(n, maxAttempts) == n <= maxAttempts

\* line 208: attempt < maxAttempts
retryFollows(n, maxAttempts) == n < maxAttempts

----------------------------------------------------------------------------
(* Inputs *)

White == <<255, 255, 255>>

Red == <<255, 0, 0>>

Blue == <<0, 0, 255>>

UniformImage(w, h, c) ==
    [width |-> w, height |-> h, splitX |-> w, colorA |-> c, colorB |-> c]

SplitImage(w, h, sx, ca, cb) ==
    [width |-> w, height |-> h, splitX |-> sx, colorA |-> ca, colorB |-> cb]

\* images given to ImageRecognitionManager.analyze: one grid cell, two
\* cells of different colors, and an image smaller than minRegionSize
ManagerImages ==
    {UniformImage(20, 20, White), SplitImage(40, 20, 20, Red, Blue),
     UniformImage(3, 3, Red)}

\* an ApiElementDescription; every field is optional in a reply
ApiElement(type, x, y, w, h, color, text) ==
    [type |-> type, x |-> x, y |-> y, width |-> w, height |-> h,
     color |-> color, text |-> text, fontSize |-> None]

TypeButton == <<"B", "u", "t", "t", "o", "n">>

TypeLABEL == <<"L", "A", "B", "E", "L">>

\* the items of an array: the element objects separated by commas
RECURSIVE ItemsText(_)
ItemsText(elems) ==
    IF elems = <<>> THEN <<>>
    ELSE IF Len(elems) = 1 THEN <<ElementAtom(elems[1])>>
    ELSE <<ElementAtom(elems[1]), TextAtom(","), TextAtom("ws")>>
         \o ItemsText(Tail(elems))

\* {"width": w, "height": h, "elements": [ ... ]}
ObjectText(w, h, elems) ==
    <<TextAtom("{"), StringAtom("width"), TextAtom(":"), NumberAtom(w), TextAtom(","),
      StringAtom("height"), TextAtom(":"), NumberAtom(h), TextAtom(","),
      StringAtom("elements"), TextAtom(":"), TextAtom("ws"), TextAtom("[")>>
    \o ItemsText(elems) \o <<TextAtom("]"), TextAtom("}")>>

\* a reply in prose, without any JSON
ProseReply == <<TextAtom("prose"), TextAtom("ws"), TextAtom("prose")>>

\* replies of the remote model to the manager: prose, an empty element
\* list, two elements
Replies ==
    {ProseReply,
     ObjectText(400, 300, <<>>),
     ObjectText(400, 300,
                <<ApiElement(Some(TypeButton), Some(0), Some(0), Some(100), Some(100),
                             Some(<<"#", "F", "F", "F">>), None),
                  ApiElement(Some(TypeLABEL), Some(300), Some(0), Some(100), Some(100),
                             None, Some("hi"))>>)}

Responses ==
    {[kind |-> k, content |-> <<>>] :
        k \in {"network_error", "timeout", "http_error", "bad_json", "no_content"}}
    \cup {[kind |-> "content", content |-> c] : c \in Replies}

Decodes == {"ok", "load_error", "no_context"}

GivenConfigs ==
    [enableLocalFallback : {"absent", "undefined", "true", "false"},
     openApiKey          : {"", "sk-key"},
     openApiEndpoint     : {"", "https://api"},
     colorThreshold      : {None, Some(200)},
     minRegionSize       : {None, Some(1)}]

ServiceTypes == {"local", "openapi"}

----------------------------------------------------------------------------
(* Initial values of the three groups of variables *)

CallArgs(img, preferred, layoutOn) ==
    [imageData |-> img, preferredService |-> preferred,
     enableLayoutAnalysis |-> layoutOn]

\* new HostCommunicationManager()
HostConstructed ==
    /\ hostReady = FALSE
    /\ pendingMessages = <<>>
    /\ uiPosts = <<>>
    /\ droppedMessages = <<>>
    /\ hClock = 0
    /\ hOps = 0

UploadIdle ==
    /\ uPc = "idle"
    /\ uSettings = [processingMode |-> "local", openApiKey |-> FALSE]
    /\ uPosts = <<>>
    /\ uCloseScheduled = 0
    /\ uClosed = FALSE
    /\ uAnalyses = 0
    /\ uTimer = "unset"
    /\ uAnalysis = "none"
    /\ uElements = 0

\* logger.ts, lines 41-46: the fields of a new Logger
LoggerConstructed ==
    /\ logs = <<>>
    /\ minLevel = 0
    /\ maxEntries = 1000
    /\ listeners = 0
    /\ delivered = <<>>
    /\ logClock = 0

\* errorHandler.ts, lines 179-183: DEFAULT_RETRY_CONFIG
DEFAULT_RETRY_CONFIG == [maxAttempts |-> 3, delayMs |-> 1000, backoffMultiplier |-> 2]

RetryIdle ==
    /\ rPc = "idle"
    /\ rConfig = DEFAULT_RETRY_CONFIG
    /\ attempt = 0
    /\ currentDelay = 0
    /\ lastError = <<>>
    /\ rCalls = <<>>
    /\ rRetries = <<>>
    /\ rWaits = <<>>
    /\ rResult = <<>>

UtilParked == HostConstructed /\ UploadIdle /\ LoggerConstructed /\ RetryIdle

CallBIdle ==
    /\ bPc = "idle"
    /\ bArgs = CallArgs(UniformImage(20, 20, White), "local", TRUE)
    /\ bResult = None
    /\ bResponse = None
    /\ bDecode = None

ManagerIdle ==
    /\ pc = "idle"
    /\ imageData = UniformImage(20, 20, White)
    /\ preferredService = "local"
    /\ enableLayoutAnalysis = TRUE
    /\ result = None
    /\ openApiResult = None
    /\ localResult = None
    /\ trace = <<>>
    /\ fetchCalls = 0
    /\ lastResponse = None
    /\ lastDecode = None
    /\ CallBIdle
    /\ UtilParked

\* new ImageRecognitionManager(given) in a runtime with or without a DOM
ManagerInit ==
    /\ \E given \in GivenConfigs :
          /\ config = managerConfig(given)
          /\ openApiService = managerOpenApiService(given)
    /\ hasDOM \in BOOLEAN
    /\ ManagerIdle

ManagerParked ==
    /\ config = managerConfig([enableLocalFallback |-> "absent", openApiKey |-> "",
                               openApiEndpoint |-> "", colorThreshold |-> None,
                               minRegionSize |-> None])
    /\ openApiService = None
    /\ hasDOM = TRUE
    /\ ManagerIdle

LayoutParked ==
    /\ lElements = <<>>
    /\ lWidth = 0
    /\ lHeight = 0
    /\ lConstrained = None
    /\ lStructure = None
    /\ lAlignment = None
    /\ lAgain = None
    /\ lGaps = <<>>
    /\ lCommon = None

MergeParked ==
    /\ sPair = <<>>
    /\ sMerged = None

PassParked ==
    /\ sList = <<>>
    /\ sGroups = None

SegParked ==
    /\ sImage = UniformImage(20, 20, White)
    /\ sConfig = LocalImageProcessor(None, None, None)
    /\ sRegions = None
    /\ sResult = None
    /\ sScanned = None
    /\ MergeParked
    /\ PassParked

AdapterParked ==
    /\ aPc = "idle"
    /\ aTimer = "unset"
    /\ aFetches = 0
    /\ aResponse = None
    /\ aResult = None

----------------------------------------------------------------------------
(* ImageRecognitionManager.analyze, one call at a time *)

\* entry of analyze up to the first await (lines 63-71, 78-80)
Analyze(img, preferred, layoutOn) ==
    /\ pc \in {"idle", "returned"}
    /\ imageData' = img
    /\ preferredService' = preferred
    /\ enableLayoutAnalysis' = layoutOn
    /\ result' = None
    /\ openApiResult' = None
    /\ localResult' = None
    /\ trace' = <<>>
    /\ fetchCalls' = 0
    /\ lastResponse' = None
    /\ lastDecode' = None
    /\ pc' = IF useOpenApi(preferred, openApiService)
             THEN "tryOpenApi" ELSE "tryLocal"
    /\ UNCHANGED <<config, openApiService, hasDOM, callBVars,
                   utilVars, layoutVars, segVars, adapterVars>>

\* result = await this.tryOpenApi(imageData) and the fallback test (73-77)
TryOpenApi(response) ==
    /\ pc = "tryOpenApi"
    /\ \E r \in {tryOpenApi(openApiService, response)} :
           /\ trace' = Append(trace, "openapi")
           /\ fetchCalls' = fetchCalls + tryOpenApiFetches(openApiService)
           /\ lastResponse' = Some(response)
           /\ IF r.thrown
              THEN /\ pc' = "thrown"
                   /\ UNCHANGED <<result, openApiResult>>
              ELSE /\ result' = r.value
                   /\ openApiResult' = r.value
                   /\ pc' = pcAfterTryOpenApi(r.value[1], config)
    /\ UNCHANGED <<config, openApiService, hasDOM, imageData, preferredService,
                   enableLayoutAnalysis, localResult, lastDecode, callBVars,
                   utilVars, layoutVars, segVars, adapterVars>>

\* result = await this.tryLocal(imageData) (lines 76 and 80)
TryLocal(decode) ==
    /\ pc = "tryLocal"
    /\ \E r \in {tryLocal(imageData, hasDOM, decode, config)} :
           /\ trace' = Append(trace, "local")
           /\ lastDecode' = Some(decode)
           /\ IF r.thrown
              THEN /\ pc' = "thrown"
                   /\ UNCHANGED <<result, localResult>>
              ELSE /\ result' = r.value
                   /\ localResult' = r.value
                   /\ pc' = pcAfterTryLocal(r.value[1])
    /\ UNCHANGED <<config, openApiService, hasDOM, imageData, preferredService,
                   enableLayoutAnalysis, openApiResult, fetchCalls, lastResponse,
                   callBVars,
                   utilVars, layoutVars, segVars, adapterVars>>

\* the layout post-pass and return result (lines 83-100)
LayoutAndReturn ==
    /\ pc = "layout"
    /\ result' = Some(layoutPostPass(result[1], enableLayoutAnalysis))
    /\ pc' = "returned"
    /\ UNCHANGED <<config, openApiService, hasDOM, imageData, preferredService,
                   enableLayoutAnalysis, openApiResult, localResult, trace,
                   fetchCalls, lastResponse, lastDecode, callBVars,
                   utilVars, layoutVars, segVars, adapterVars>>

\* analyze as a function of its arguments, the manager's fields, the
\* runtime and the answers the call receives (lines 63-101): response and
\* decode hold 0 or 1 entries, an answer is read only on the path that
\* awaits it, and there is no outcome when that answer is missing
localOutcome(args, cfg, dom, decode) ==
    IF decode = None THEN None
    ELSE Some(layoutPostPass(tryLocal(args.imageData, dom, decode[1], cfg).value[1],
                             args.enableLayoutAnalysis))

analyzeOutcome(args, cfg, service, dom, response, decode) ==
    IF ~useOpenApi(args.preferredService, service)
    THEN localOutcome(args, cfg, dom, decode)
    ELSE IF response = None THEN None
    ELSE IF fallbackToLocal(tryOpenApi(service, response[1]).value[1], cfg)
    THEN localOutcome(args, cfg, dom, decode)
    ELSE Some(layoutPostPass(tryOpenApi(service, response[1]).value[1],
                             args.enableLayoutAnalysis))

Init == ManagerInit /\ LayoutParked /\ SegParked /\ AdapterParked

Next ==
    \/ \E img \in ManagerImages, preferred \in ServiceTypes, layoutOn \in BOOLEAN :
          Analyze(img, preferred, layoutOn)
    \/ \E response \in Responses : TryOpenApi(response)
    \/ \E decode \in Decodes : TryLocal(decode)
    \/ LayoutAndReturn

Spec == Init /\ [][Next]_vars

----------------------------------------------------------------------------
(* Two analyze calls on one manager, interleaved at their awaits *)

firstCallVars == <<pc, imageData, preferredService, enableLayoutAnalysis, result,
                   openApiResult, localResult, trace, fetchCalls, lastResponse,
                   lastDecode>>

\* entry of the second call up to its first await (lines 63-71, 78-80)
AnalyzeB(img, preferred, layoutOn) ==
    /\ bPc \in {"idle", "returned"}
    /\ bArgs' = CallArgs(img, preferred, layoutOn)
    /\ bResult' = None
    /\ bResponse' = None
    /\ bDecode' = None
    /\ bPc' = IF useOpenApi(preferred, openApiService)
              THEN "tryOpenApi" ELSE "tryLocal"
    /\ UNCHANGED <<config, openApiService, hasDOM, firstCallVars, utilVars, layoutVars,
                   segVars, adapterVars>>

\* its result = await this.tryOpenApi(imageData) and the fallback test (73-77)
TryOpenApiB(response) ==
    /\ bPc = "tryOpenApi"
    /\ \E r \in {tryOpenApi(openApiService, response)} :
           /\ bResponse' = Some(response)
           /\ IF r.thrown
              THEN /\ bPc' = "thrown"
                   /\ UNCHANGED bResult
              ELSE /\ bResult' = r.value
                   /\ bPc' = pcAfterTryOpenApi(r.value[1], config)
    /\ UNCHANGED <<config, openApiService, hasDOM, firstCallVars, utilVars, bArgs, bDecode,
                   layoutVars, segVars, adapterVars>>

\* its result = await this.tryLocal(imageData) (lines 76 and 80)
TryLocalB(decode) ==
    /\ bPc = "tryLocal"
    /\ \E r \in {tryLocal(bArgs.imageData, hasDOM, decode, config)} :
           /\ bDecode' = Some(decode)
           /\ IF r.thrown
              THEN /\ bPc' = "thrown"
                   /\ UNCHANGED bResult
              ELSE /\ bResult' = r.value
                   /\ bPc' = pcAfterTryLocal(r.value[1])
    /\ UNCHANGED <<config, openApiService, hasDOM, firstCallVars, utilVars, bArgs, bResponse,
                   layoutVars, segVars, adapterVars>>

\* its layout post-pass and return result (lines 83-100)
LayoutAndReturnB ==
    /\ bPc = "layout"
    /\ bResult' = Some(layoutPostPass(bResult[1], bArgs.enableLayoutAnalysis))
    /\ bPc' = "returned"
    /\ UNCHANGED <<config, openApiService, hasDOM, firstCallVars, utilVars, bArgs, bResponse,
                   bDecode, layoutVars, segVars, adapterVars>>

ConcurrentConfigs ==
    [enableLocalFallback : {"true", "false"},
     openApiKey          : {"", "sk-key"},
     openApiEndpoint     : {"https://api"},
     colorThreshold      : {None},
     minRegionSize       : {None}]

ConcurrentImages == {UniformImage(20, 20, White), UniformImage(3, 3, Red)}

ConcurrentResponses ==
    {[kind |-> "network_error", content |-> <<>>],
     [kind |-> "content", content |-> ObjectText(400, 300, <<>>)]}

ConcurrentDecodes == {"ok", "load_error"}

ConcurrentInit ==
    /\ \E given \in ConcurrentConfigs :
          /\ config = managerConfig(given)
          /\ openApiService = managerOpenApiService(given)
    /\ hasDOM \in BOOLEAN
    /\ ManagerIdle
    /\ LayoutParked /\ SegParked /\ AdapterParked

ConcurrentNext ==
    \/ \E img \in ConcurrentImages, preferred \in ServiceTypes :
          Analyze(img, preferred, TRUE)
    \/ \E response \in ConcurrentResponses : TryOpenApi(response)
    \/ \E decode \in ConcurrentDecodes : TryLocal(decode)
    \/ LayoutAndReturn
    \/ \E img \in ConcurrentImages, preferred \in ServiceTypes :
          AnalyzeB(img, preferred, TRUE)
    \/ \E response \in ConcurrentResponses : TryOpenApiB(response)
    \/ \E decode \in ConcurrentDecodes : TryLocalB(decode)
    \/ LayoutAndReturnB

SpecConcurrent == ConcurrentInit /\ [][ConcurrentNext]_vars

----------------------------------------------------------------------------
(* HostCommunicationManager on its own *)

coreVars == <<config, openApiService, hasDOM, firstCallVars, callBVars, layoutVars,
              segVars, adapterVars>>

CoreParked ==
    /\ config = managerConfig([enableLocalFallback |-> "absent", openApiKey |-> "",
                               openApiEndpoint |-> "", colorThreshold |-> None,
                               minRegionSize |-> None])
    /\ openApiService = None
    /\ hasDOM = TRUE
    /\ pc = "idle"
    /\ imageData = UniformImage(20, 20, White)
    /\ preferredService = "local"
    /\ enableLayoutAnalysis = TRUE
    /\ result = None
    /\ openApiResult = None
    /\ localResult = None
    /\ trace = <<>>
    /\ fetchCalls = 0
    /\ lastResponse = None
    /\ lastDecode = None
    /\ CallBIdle
    /\ LayoutParked
    /\ SegParked
    /\ AdapterParked

MaxHostOps == 4

SendTypes == {"ping", "show-dock", "custom-action"}

HostMessageTypes ==
    {"host-ready", "pong", "host-unmounting", "host-status-response",
     "custom-action-result", "other"}

\* the manager as constructed, or after MAX_PENDING_MESSAGES - 1 requests
\* were sent to a host that has not reported ready
HostInit ==
    /\ hostReady = FALSE
    /\ \E n \in {0, MAX_PENDING_MESSAGES - 1} :
          /\ pendingMessages = [i \in 1..n |-> HostMessage("custom-action", i)]
          /\ hClock = n
    /\ uiPosts = <<>>
    /\ droppedMessages = <<>>
    /\ hOps = 0
    /\ CoreParked
    /\ UploadIdle
    /\ LoggerConstructed
    /\ RetryIdle

HostNow == HostState(hostReady, pendingMessages, uiPosts, droppedMessages)

HostBecomes(st) ==
    /\ hostReady' = st.hostReady
    /\ pendingMessages' = st.pendingMessages
    /\ uiPosts' = st.uiPosts
    /\ droppedMessages' = st.droppedMessages

\* hostCommunication.sendToHost({ type, timestamp: Date.now() })
SendToHost(type) ==
    /\ hOps < MaxHostOps
    /\ hOps' = hOps + 1
    /\ hClock' = hClock + 1
    /\ HostBecomes(sendToHost(HostNow, HostMessage(type, hClock + 1)))
    /\ UNCHANGED <<coreVars, uploadVars, loggerVars, retryVars>>

\* hostCommunication.handleHostMessage({ type })
HandleHostMessage(type) ==
    /\ hOps < MaxHostOps
    /\ hOps' = hOps + 1
    /\ HostBecomes(handleHostMessage(HostNow, type))
    /\ UNCHANGED <<hClock, coreVars, uploadVars, loggerVars, retryVars>>

HostNext ==
    \/ \E type \in SendTypes : SendToHost(type)
    \/ \E type \in HostMessageTypes : HandleHostMessage(type)

SpecHost == HostInit /\ [][HostNext]_vars

----------------------------------------------------------------------------
(* handleImageUpload on its own: one upload-image message, step by step *)

MaxUploadElements == 2

ErrorMessages == SUBSET ErrorKeywords

UploadInit ==
    UploadIdle /\ HostConstructed /\ LoggerConstructed /\ RetryIdle /\ CoreParked

\* the try block's catch and the statement after it (lines 561-604)
UploadFails(posts, errorMessage) ==
    /\ uPosts' = Append(posts, caughtPost(errorMessage))
    /\ uCloseScheduled' = uCloseScheduled + 1
    /\ uPc' = "done"

\* handleImageUpload up to its first await (lines 476-521)
HandleImageUpload(settings) ==
    /\ uPc = "idle"
    /\ uSettings' = settings
    /\ IF missingApiKey(settings)
       THEN /\ uPosts' = <<ProcessingPost(10),
                            ErrorPost({}, "enter an API key or use local mode")>>
            /\ uCloseScheduled' = uCloseScheduled + 1
            /\ uPc' = "done"
            /\ UNCHANGED <<uAnalyses, uTimer, uAnalysis>>
       ELSE /\ uPosts' = <<ProcessingPost(10), ProcessingPost(25)>>
            /\ uAnalyses' = uAnalyses + 1
            /\ uAnalysis' = "pending"
            /\ uTimer' = "armed"
            /\ uPc' = "awaitAnalysis"
            /\ UNCHANGED uCloseScheduled
    /\ UNCHANGED <<uClosed, uElements, hostVars, coreVars, loggerVars, retryVars>>

\* the analyze promise resolves before the timer fires: clearTimeout,
\* resolve, and the handler goes on (lines 386-389, 523-545); error holds
\* 0 or 1 messages
AnalysisResolves(success, elements, error) ==
    /\ uPc = "awaitAnalysis"
    /\ uAnalysis = "pending"
    /\ uTimer = "armed"
    /\ ~uClosed
    /\ uAnalysis' = "settled"
    /\ uTimer' = "cleared"
    /\ IF success
       THEN /\ uPosts' = uPosts \o <<ProcessingPost(50), ProcessingPost(60)>>
            /\ uElements' = elements
            /\ uPc' = "awaitGeneration"
            /\ UNCHANGED uCloseScheduled
       ELSE /\ UploadFails(uPosts, IF error = None THEN {"analysis"} ELSE error[1])
            /\ UNCHANGED uElements
    /\ UNCHANGED <<uSettings, uClosed, uAnalyses, hostVars, coreVars, loggerVars, retryVars>>

\* the analyze promise rejects before the timer fires (lines 390-393)
AnalysisRejects(errorMessage) ==
    /\ uPc = "awaitAnalysis"
    /\ uAnalysis = "pending"
    /\ uTimer = "armed"
    /\ ~uClosed
    /\ uAnalysis' = "settled"
    /\ uTimer' = "cleared"
    /\ UploadFails(uPosts, errorMessage)
    /\ UNCHANGED <<uSettings, uClosed, uAnalyses, uElements, hostVars, coreVars, loggerVars, retryVars>>

\* the timer of withTimeout fires: reject (lines 381-383)
AnalysisTimesOut ==
    /\ uPc = "awaitAnalysis"
    /\ uTimer = "armed"
    /\ ~uClosed
    /\ uTimer' = "fired"
    /\ UploadFails(uPosts, timeoutMessage(uSettings.processingMode))
    /\ UNCHANGED <<uSettings, uClosed, uAnalyses, uAnalysis, uElements, hostVars,
                   coreVars, loggerVars, retryVars>>

\* the analyze promise settles after the timer has fired: clearTimeout and
\* resolve or reject on a promise that is settled already
AnalysisSettlesLate ==
    /\ uAnalysis = "pending"
    /\ uTimer = "fired"
    /\ ~uClosed
    /\ uAnalysis' = "settled"
    /\ UNCHANGED <<uPc, uSettings, uPosts, uCloseScheduled, uClosed, uAnalyses, uTimer,
                   uElements, hostVars, coreVars, loggerVars, retryVars>>

\* generateDesignElements resolves with the frame and the nodes of
\* `created` elements (lines 547-559, 604)
GenerationResolves(created) ==
    /\ uPc = "awaitGeneration"
    /\ ~uClosed
    /\ created <= uElements
    /\ uPosts' = uPosts \o <<ProcessingPost(90), CompletePost(1 + created)>>
    /\ uCloseScheduled' = uCloseScheduled + 1
    /\ uPc' = "done"
    /\ UNCHANGED <<uSettings, uClosed, uAnalyses, uTimer, uAnalysis, uElements,
                   hostVars, coreVars, loggerVars, retryVars>>

\* generateDesignElements rejects
GenerationRejects(errorMessage) ==
    /\ uPc = "awaitGeneration"
    /\ ~uClosed
    /\ UploadFails(uPosts, errorMessage)
    /\ UNCHANGED <<uSettings, uClosed, uAnalyses, uTimer, uAnalysis, uElements,
                   hostVars, coreVars, loggerVars, retryVars>>

\* the callback of setTimeout(() => pixso.closePlugin(), CLOSE_PLUGIN_DELAY_MS)
ClosePlugin ==
    /\ uCloseScheduled > 0
    /\ ~uClosed
    /\ uClosed' = TRUE
    /\ UNCHANGED <<uPc, uSettings, uPosts, uCloseScheduled, uAnalyses, uTimer,
                   uAnalysis, uElements, hostVars, coreVars, loggerVars, retryVars>>

UploadSettings == [processingMode : {"local", "openapi"}, openApiKey : BOOLEAN]

UploadNext ==
    \/ \E settings \in UploadSettings : HandleImageUpload(settings)
    \/ \E elements \in 0..MaxUploadElements : AnalysisResolves(TRUE, elements, None)
    \/ \E error \in {None} \cup {Some(m) : m \in ErrorMessages} :
          AnalysisResolves(FALSE, 0, error)
    \/ \E errorMessage \in ErrorMessages : AnalysisRejects(errorMessage)
    \/ AnalysisTimesOut
    \/ AnalysisSettlesLate
    \/ \E created \in 0..MaxUploadElements : GenerationResolves(created)
    \/ \E errorMessage \in ErrorMessages : GenerationRejects(errorMessage)
    \/ ClosePlugin

\* a timer that is armed fires unless it is cleared, and the host's
\* element creation settles
SpecUpload ==
    /\ UploadInit
    /\ [][UploadNext]_vars
    /\ WF_vars(AnalysisTimesOut)
    /\ WF_vars(\E created \in 0..MaxUploadElements : GenerationResolves(created))
    /\ WF_vars(ClosePlugin)

----------------------------------------------------------------------------
(* The logger on its own *)

MaxLogCalls == 3
MaxListeners == 1

LoggerInit ==
    LoggerConstructed /\ HostConstructed /\ UploadIdle /\ RetryIdle /\ CoreParked

LoggerNow == LoggerState(logs, minLevel, maxEntries, listeners, delivered)

LoggerBecomes(st) ==
    /\ logs' = st.logs
    /\ minLevel' = st.minLevel
    /\ maxEntries' = st.maxEntries
    /\ listeners' = st.listeners
    /\ delivered' = st.delivered

Configure(cfg) ==
    /\ LoggerBecomes(configure(LoggerNow, cfg))
    /\ UNCHANGED <<logClock, coreVars, hostVars, uploadVars, retryVars>>

\* addListener (lines 65-73)
AddListener ==
    /\ listeners < MaxListeners
    /\ listeners' = listeners + 1
    /\ UNCHANGED <<logs, minLevel, maxEntries, delivered, logClock, coreVars, hostVars,
                   uploadVars, retryVars>>

\* debug, info, warn, error (lines 153-179)
Log(level) ==
    /\ logClock < MaxLogCalls
    /\ logClock' = logClock + 1
    /\ LoggerBecomes(log(LoggerNow, level, logClock + 1))
    /\ UNCHANGED <<coreVars, hostVars, uploadVars, retryVars>>

\* clear (lines 205-207)
Clear ==
    /\ logs' = <<>>
    /\ UNCHANGED <<minLevel, maxEntries, listeners, delivered, logClock, coreVars,
                   hostVars, uploadVars, retryVars>>

LoggerConfigs ==
    [minLevel : {None} \cup {Some(l) : l \in 0..3},
     maxEntries : {None, Some(1), Some(2)}]

LoggerNext ==
    \/ \E cfg \in LoggerConfigs : Configure(cfg)
    \/ AddListener
    \/ \E level \in 0..3 : Log(level)
    \/ Clear

SpecLogger == LoggerInit /\ [][LoggerNext]_vars

----------------------------------------------------------------------------
(* withRetry on its own: one call, step by step *)

MaxAttempts == 3

RetryInit ==
    RetryIdle /\ LoggerConstructed /\ HostConstructed /\ UploadIdle /\ CoreParked

\* the head of the for loop (line 197) and the statement after the loop
\* (line 218), for loop variable n
RetryLoop(n, error) ==
    /\ attempt' = n
    /\ IF n <= rConfig'.maxAttempts
       THEN /\ rPc' = "calling"
            /\ rResult' = None
       ELSE /\ rPc' = "settled"
            /\ rResult' = Some(Throw(IF error = None THEN Thrown("retry failed", TRUE)
                                      ELSE error[1]))

\* withRetry up to its first await (lines 188-199); cfg overrides the
\* fields of DEFAULT_RETRY_CONFIG it holds
WithRetry(cfg) ==
    /\ rPc = "idle"
    /\ rConfig' = cfg
    /\ lastError' = None
    /\ currentDelay' = cfg.delayMs
    /\ RetryLoop(1, None)
    /\ UNCHANGED <<rCalls, rRetries, rWaits, loggerVars, coreVars, hostVars, uploadVars>>

\* the promise of fn() resolves: return (line 199)
FnResolves(value) ==
    /\ rPc = "calling"
    /\ rCalls' = Append(rCalls, Return(value))
    /\ rPc' = "settled"
    /\ rResult' = Some(Return(value))
    /\ UNCHANGED <<rConfig, attempt, currentDelay, lastError, rRetries, rWaits,
                   loggerVars, coreVars, hostVars, uploadVars>>

\* fn() throws or its promise rejects: the catch block (lines 200-215)
FnRejects(error) ==
    /\ rPc = "calling"
    /\ rCalls' = Append(rCalls, Throw(error))
    /\ lastError' = Some(asError(error))
    /\ logClock' = logClock + 1
    /\ LoggerBecomes(log(LoggerNow, LogLevel.WARN, logClock + 1))
    /\ IF retryFollows(attempt, rConfig.maxAttempts)
       THEN /\ rRetries' = Append(rRetries, <<attempt, asError(error)>>)
            /\ rWaits' = Append(rWaits, currentDelay)
            /\ rPc' = "waiting"
            /\ UNCHANGED <<rConfig, attempt, rResult>>
       ELSE /\ UNCHANGED <<rConfig, rRetries, rWaits>>
            /\ RetryLoop(attempt + 1, Some(asError(error)))
    /\ UNCHANGED <<currentDelay, coreVars, hostVars, uploadVars>>

\* the timer of the wait fires (lines 212-213), and the loop goes on
WaitEnds ==
    /\ rPc = "waiting"
    /\ currentDelay' = currentDelay * rConfig.backoffMultiplier
    /\ UNCHANGED rConfig
    /\ RetryLoop(attempt + 1, lastError)
    /\ UNCHANGED <<lastError, rCalls, rRetries, rWaits, loggerVars, coreVars, hostVars,
                   uploadVars>>

RetryConfigs ==
    [maxAttempts : 0..MaxAttempts, delayMs : {0, 100}, backoffMultiplier : {1, 2}]

FnValues == {"a", "b"}

FnErrors == {Thrown("e1", TRUE), Thrown("e2", FALSE)}

RetryNext ==
    \/ \E cfg \in RetryConfigs : WithRetry(cfg)
    \/ \E value \in FnValues : FnResolves(value)
    \/ \E error \in FnErrors : FnRejects(error)
    \/ WaitEnds

SpecRetry == RetryInit /\ [][RetryNext]_vars

----------------------------------------------------------------------------
(* Layout analyzer on its own: constraint inference over a range of *)
(* element geometries and container sizes                           *)

ConstraintXs == {0, 30, 39, 40, 130, 131, 150, 260, 261, 300, 361}

ConstraintSizes == {10, 50, 100, 320, 321, 350}

ContainerSizes == {25, 300, 400}

ConstraintElement(x, y, w, h) ==
    [type |-> "rectangle", x |-> x, y |-> y, width |-> w, height |-> h,
     color |-> None, text |-> None, fontSize |-> None, layout |-> None]

\* a text element with a color, as the remote adapter returns them
TextElement(x, y, w, h) ==
    [type |-> "text", x |-> x, y |-> y, width |-> w, height |-> h,
     color |-> Some([r |-> <<1, 1>>, g |-> <<1, 2>>, b |-> <<0, 1>>]),
     text |-> Some("hi"), fontSize |-> Some(12), layout |-> None]

ConstraintInit ==
    /\ \E x \in ConstraintXs, w \in ConstraintSizes,
          y \in {0, 30, 131, 261}, h \in {50, 100, 321} :
          lElements \in {<<ConstraintElement(x, y, w, h)>>,
                         <<ConstraintElement(x, y, w, h),
                           TextElement(y, x, h, w)>>}
    /\ lWidth \in ContainerSizes
    /\ lHeight \in ContainerSizes
    /\ lConstrained = None
    /\ lStructure = None
    /\ lAlignment = None
    /\ lAgain = None
    /\ lGaps = <<>>
    /\ lCommon = None
    /\ ManagerParked
    /\ SegParked
    /\ AdapterParked

GenerateAllConstraints ==
    /\ lConstrained = None
    /\ lConstrained' = Some(generateAllConstraints(lElements, lWidth, lHeight))
    /\ UNCHANGED <<lElements, lWidth, lHeight, lStructure, lAlignment, lAgain,
                   lGaps, lCommon, managerVars, segVars, adapterVars>>

AnalyzeStructure ==
    /\ lStructure = None
    /\ lStructure' = Some(analyzeStructure(lElements, lWidth, lHeight))
    /\ UNCHANGED <<lElements, lWidth, lHeight, lConstrained, lAlignment, lAgain,
                   lGaps, lCommon, managerVars, segVars, adapterVars>>

\* generateAllConstraints called on the list it returned, with the same
\* container size, and once more on the first input
GenerateAgain ==
    /\ lConstrained # None
    /\ lAgain = None
    /\ lAgain' = Some([onOutput |-> generateAllConstraints(lConstrained[1], lWidth,
                                                           lHeight),
                       onInput  |-> generateAllConstraints(lElements, lWidth, lHeight)])
    /\ UNCHANGED <<lElements, lWidth, lHeight, lConstrained, lStructure, lAlignment,
                   lGaps, lCommon, managerVars, segVars, adapterVars>>

ConstraintNext == GenerateAllConstraints \/ AnalyzeStructure \/ GenerateAgain

SpecConstraints == ConstraintInit /\ [][ConstraintNext]_vars

----------------------------------------------------------------------------
(* Layout analyzer on its own: alignment detection over short element *)
(* lists in every order                                               *)

MaxAlignElements == 3

\* left edges 0, 5, 10 chain within the threshold; 11 is beyond it from 5
AlignXs == {0, 5, 10, 11}

\* odd and even widths: the centers fall on halves and on integers
AlignWidths == {10, 11}

AlignYs == {0, 6}

AlignElements ==
    {ConstraintElement(x, y, w, 10) : x \in AlignXs, y \in AlignYs, w \in AlignWidths}

AlignInit ==
    /\ \E n \in 1..MaxAlignElements : lElements \in [1..n -> AlignElements]
    /\ lWidth = 400
    /\ lHeight = 300
    /\ lConstrained = None
    /\ lStructure = None
    /\ lAlignment = None
    /\ lAgain = None
    /\ lGaps = <<>>
    /\ lCommon = None
    /\ ManagerParked
    /\ SegParked
    /\ AdapterParked

DetectAlignment ==
    /\ lAlignment = None
    /\ lAlignment' = Some(detectAlignment(lElements))
    /\ UNCHANGED <<lElements, lWidth, lHeight, lConstrained, lStructure, lAgain,
                   lGaps, lCommon, managerVars, segVars, adapterVars>>

AlignNext == DetectAlignment

SpecAlignment == AlignInit /\ [][AlignNext]_vars

----------------------------------------------------------------------------
(* Layout analyzer on its own: rows, columns and the grid of element *)
(* lists laid out in bands, and the most common value of gap lists   *)

MaxGridBands == 3

\* tops and heights of the bands: the centers 35 and 45 are 10 apart, 35
\* and 46 are 11 apart
BandSpans == {<<0, 10>>, <<30, 10>>, <<40, 10>>, <<41, 10>>, <<70, 10>>}

\* the left edges of the elements of a band
BandLefts == {<<0, 100>>, <<30, 130>>, <<0>>}

\* a band of height 60 overlaps the bands below it
Bands == (BandSpans \X BandLefts) \cup {<<(<<0, 60>>), (<<0, 100>>)>>}

\* the elements of the bands, band after band
RECURSIVE BandElements(_)
BandElements(bands) ==
    IF bands = <<>> THEN <<>>
    ELSE LET span  == Head(bands)[1]
             lefts == Head(bands)[2]
         IN  [k \in 1..Len(lefts) |->
                 ConstraintElement(lefts[k], span[1], 20, span[2])]
             \o BandElements(Tail(bands))

\* gaps as detectGrid collects them, doubled: odd numbers are the halves
GapValues == {20, 21, 39, 40, 41}

MaxGaps == 3

\* either an element list for analyzeStructure or a gap list for
\* getMostCommonValue
GridInit ==
    /\ \/ /\ \E n \in 0..MaxGridBands :
                \E bands \in [1..n -> Bands] :
                    lElements = BandElements(bands)
          /\ lGaps = <<>>
       \/ /\ lElements = <<>>
          /\ \E n \in 1..MaxGaps : lGaps \in [1..n -> GapValues]
    /\ lWidth = 400
    /\ lHeight = 300
    /\ lConstrained = None
    /\ lStructure = None
    /\ lAlignment = None
    /\ lAgain = None
    /\ lCommon = None
    /\ ManagerParked
    /\ SegParked
    /\ AdapterParked

\* getMostCommonValue is called on non-empty gap lists only (lines 258, 274)
GetMostCommonValue ==
    /\ lCommon = None
    /\ Len(lGaps) > 0
    /\ lCommon' = Some(getMostCommonValue(lGaps))
    /\ UNCHANGED <<lElements, lWidth, lHeight, lConstrained, lStructure, lAlignment,
                   lAgain, lGaps, managerVars, segVars, adapterVars>>

GridNext == AnalyzeStructure \/ GetMostCommonValue

SpecGrid == GridInit /\ [][GridNext]_vars

----------------------------------------------------------------------------
(* Region segmenter on its own *)

MaxImageSide == 60

\* every side gives at least defaultMinRegionSize pixels (5 x 5 = 25)
ImageSides == {5, 20, 25, 40, 41, MaxImageSide}

Gray == <<128, 128, 128>>

SegImages ==
    {UniformImage(w, h, c) : w \in ImageSides, h \in ImageSides, c \in {White, Gray}}
    \cup {SplitImage(w, h, sx, Red, c) :
             w \in {40, MaxImageSide}, h \in {20, 40}, sx \in {20, 40}, c \in {Blue, White}}

\* minRegionSize 101 discards the cells that are 5 pixels wide or high
SegConfigs ==
    {LocalImageProcessor(ct, ms, mr) :
        ct \in {None, Some(0)}, ms \in {None, Some(1), Some(101)},
        mr \in {None, Some(2)}}

SegInit ==
    /\ sImage \in SegImages
    /\ sConfig \in SegConfigs
    /\ sRegions = None
    /\ sResult = None
    /\ sScanned = None
    /\ MergeParked
    /\ PassParked
    /\ ManagerParked
    /\ LayoutParked
    /\ AdapterParked

DetectRegions ==
    /\ sRegions = None
    /\ sRegions' = Some(detectRegions(sImage, sConfig))
    /\ sScanned' = Some(candidateRegions(sImage, sConfig).scanned)
    /\ UNCHANGED <<sImage, sConfig, sResult, sPair, sMerged, sList, sGroups,
                   managerVars, layoutVars, adapterVars>>

LocalAnalyze(decode) ==
    /\ sResult = None
    /\ sResult' = Some(LocalImageProcessor_analyze(sImage, decode, sConfig))
    /\ UNCHANGED <<sImage, sConfig, sRegions, sScanned, sPair, sMerged, sList,
                   sGroups, managerVars, layoutVars, adapterVars>>

SegNext == DetectRegions \/ \E decode \in Decodes : LocalAnalyze(decode)

SpecSegment == SegInit /\ [][SegNext]_vars

----------------------------------------------------------------------------
(* Merging of two regions on its own: shouldMerge and mergeTwo over pairs *)
(* of regions as findRegion makes them                                    *)

NearWhite == <<235, 245, 255>>

\* the region findRegion returns for a w x h cell at (x, y) of color c
CellRegion(x, y, w, h, c) ==
    [x |-> x, y |-> y, width |-> w, height |-> h,
     color |-> [r |-> Frac(c[1], 255), g |-> Frac(c[2], 255), b |-> Frac(c[3], 255)],
     pixelCount |-> w * h]

MergeCells ==
    {CellRegion(x, y, w, 20, c) :
        x \in {0, 20, 40}, y \in {0, 20}, w \in {5, 20}, c \in {White, NearWhite, Red}}

MergeInit ==
    /\ sPair \in MergeCells \X MergeCells
    /\ sMerged = None
    /\ sImage = UniformImage(20, 20, White)
    /\ sConfig \in {LocalImageProcessor(None, None, None),
                    LocalImageProcessor(Some(0), None, None)}
    /\ sRegions = None
    /\ sResult = None
    /\ sScanned = None
    /\ PassParked
    /\ ManagerParked
    /\ LayoutParked
    /\ AdapterParked

\* lines 252-253 of mergeRegions: current = this.mergeTwo(current, other)
\* when shouldMerge(current, other)
MergeTwo ==
    /\ sMerged = None
    /\ shouldMerge(sPair[1], sPair[2], sConfig)
    /\ sMerged' = Some(mergeTwo(sPair[1], sPair[2]))
    /\ UNCHANGED <<sImage, sConfig, sRegions, sResult, sScanned, sPair, sList,
                   sGroups, managerVars, layoutVars, adapterVars>>

MergeNext == MergeTwo

SpecMerge == MergeInit /\ [][MergeNext]_vars

----------------------------------------------------------------------------
(* The merge pass on its own: mergeRegions over lists of regions *)

MaxMergeList == 3

PassCells ==
    {CellRegion(x, y, 20, 20, c) :
        x \in {0, 20, 40}, y \in {0, 20}, c \in {White, NearWhite}}

PassLists ==
    UNION {[1..n -> PassCells] : n \in 0..MaxMergeList}

PassInit ==
    /\ sList \in PassLists
    /\ sGroups = None
    /\ sConfig \in {LocalImageProcessor(None, None, None),
                    LocalImageProcessor(Some(0), None, None)}
    /\ sImage = UniformImage(20, 20, White)
    /\ sRegions = None
    /\ sResult = None
    /\ sScanned = None
    /\ MergeParked
    /\ ManagerParked
    /\ LayoutParked
    /\ AdapterParked

\* merged = this.mergeRegions(regions)
MergeRegions ==
    /\ sRegions = None
    /\ sRegions' = Some(mergeRegions(sList, sConfig))
    /\ sGroups' = Some(mergeGroups(sList, sConfig))
    /\ UNCHANGED <<sImage, sConfig, sResult, sScanned, sPair, sMerged, sList,
                   managerVars, layoutVars, adapterVars>>

PassNext == MergeRegions

SpecMergePass == PassInit /\ [][PassNext]_vars

----------------------------------------------------------------------------
(* Remote adapter on its own: OpenApiVisionService.analyze step by step, *)
(* over replies of many shapes                                           *)

TypeIMG == <<"I", "M", "G">>

TypeWidget == <<"W", "i", "d", "g", "e", "t">>

TypeConstructor == <<"c", "o", "n", "s", "t", "r", "u", "c", "t", "o", "r">>

\* a synonym in mixed case, one in upper case, an unknown word, a word that
\* names a property of every object, and no type at all
ReplyTypes == {Some(TypeButton), Some(TypeLABEL), Some(TypeIMG), Some(TypeWidget),
               Some(TypeConstructor), None}

\* no color, "#FFF", "#ff8000", "#ZZZ", "red", "#12345", ""
ReplyColors ==
    {None, Some(<<"#", "F", "F", "F">>), Some(<<"#", "f", "f", "8", "0", "0", "0">>),
     Some(<<"#", "Z", "Z", "Z">>), Some(<<"r", "e", "d">>),
     Some(<<"#", "1", "2", "3", "4", "5">>), Some(<<>>)}

ReplyWidths == {Some(100), Some(-5), None}

ReplyElements ==
    {ApiElement(t, Some(10), Some(20), w, Some(50), c, None) :
        t \in ReplyTypes, w \in ReplyWidths, c \in ReplyColors}

\* a button whose label holds brackets, followed by a second element
BracketObject ==
    ObjectText(400, 300,
               <<ApiElement(Some(TypeButton), Some(0), Some(0), Some(100), Some(40),
                            None, Some("[OK]")),
                 ApiElement(Some(TypeLABEL), Some(0), Some(50), Some(100), Some(40),
                            None, Some("hi"))>>)

ReplyObjects ==
    {ObjectText(400, 300, <<e>>) : e \in ReplyElements}
    \cup {ObjectText(400, 300, <<>>), BracketObject}
    \cup {ObjectText(400, 300,
                     <<ApiElement(Some(TypeButton), Some(0), Some(0), Some(100),
                                  Some(100), Some(<<"#", "F", "F", "F">>), None),
                       ApiElement(t, Some(300), Some(0), Some(100), Some(100),
                                  None, Some("hi"))>>) : t \in ReplyTypes}

Prose == TextAtom("prose")

Ws == TextAtom("ws")

Fence == TextAtom("fence")

\* the reply is the object, alone or between white space
Padded(obj) == <<Ws>> \o obj \o <<Ws>>

\* the object in a fenced block tagged json, prose around the block
Fenced(obj) ==
    <<Prose, Ws, Fence, TextAtom("json"), Ws>> \o obj \o <<Ws, Fence, Ws, Prose>>

\* the object in a fenced block without a tag
FencedPlain(obj) == <<Fence, Ws>> \o obj \o <<Ws, Fence>>

\* the object between sentences
InProse(obj) == <<Prose, Ws>> \o obj \o <<Ws, Prose>>

BrokenObject == <<TextAtom("{"), Prose, TextAtom("}")>>

\* replies from which no strategy recovers an object, replies that are
\* JSON but no object, a fenced block that does not parse followed by an
\* object that would, an object cut short, two objects in prose
OddReplies ==
    {ProseReply,
     <<TextAtom("null")>>,
     <<NumberAtom(42)>>,
     <<TextAtom("{"), StringAtom("width"), TextAtom(":"), NumberAtom(400), TextAtom("}")>>,
     InProse(<<TextAtom("{"), StringAtom("width"), TextAtom(":"), NumberAtom(400),
               TextAtom("}")>>),
     FencedPlain(BrokenObject),
     FencedPlain(BrokenObject) \o InProse(ObjectText(400, 300, <<>>)),
     InProse(BrokenObject) \o ObjectText(400, 300, <<>>),
     <<Prose, Ws, Fence, TextAtom("json"), Ws, TextAtom("{"), StringAtom("elements"),
       TextAtom(":"), TextAtom("[")>>,
     InProse(ObjectText(400, 300, <<>>)) \o ObjectText(100, 100, <<>>)}

AdapterReplies ==
    ReplyObjects
    \cup {Padded(obj) : obj \in ReplyObjects}
    \cup {Fenced(obj) : obj \in ReplyObjects}
    \cup {FencedPlain(obj) : obj \in ReplyObjects}
    \cup {InProse(obj) : obj \in ReplyObjects}
    \cup OddReplies

InFlight == {"fetching", "readingError", "readingJson"}

\* the request of this call has ended as `kind`: the finally block clears
\* the timer, parseResponse runs on a content, analyze returns
RequestEnds(kind, content) ==
    LET response == [kind |-> kind, content |-> content]
    IN  /\ aResponse' = Some(response)
        /\ IF pcAfterRequest(response) = "returned"
           THEN /\ aPc' = "returned"
                /\ aTimer' = IF aTimer = "armed" THEN "cleared" ELSE aTimer
                /\ aFetches' = aFetches
                /\ aResult' = Some(OpenApiVisionService_analyze(response))
           ELSE /\ aPc' = "fetching"
                /\ aTimer' = "armed"
                /\ aFetches' = aFetches + 1
                /\ aResult' = None

\* analyze up to the await of fetch: buildRequestBody, new AbortController,
\* setTimeout, fetch (lines 85-88, 156-168)
AdapterAnalyze ==
    /\ aPc \in {"idle", "returned"}
    /\ aPc' = "fetching"
    /\ aTimer' = "armed"
    /\ aFetches' = 1
    /\ aResponse' = None
    /\ aResult' = None
    /\ UNCHANGED <<managerVars, layoutVars, segVars>>

\* the timer callback: controller.abort() (line 157)
TimerFires ==
    /\ aTimer = "armed"
    /\ aTimer' = "fired"
    /\ UNCHANGED <<aPc, aFetches, aResponse, aResult, managerVars, layoutVars, segVars>>

\* the pending fetch or body read rejects with the abort error
AbortRejects ==
    /\ aTimer = "fired"
    /\ aPc \in InFlight
    /\ RequestEnds("timeout", <<>>)
    /\ UNCHANGED <<managerVars, layoutVars, segVars>>

\* the fetch or the body read rejects by itself (connection lost)
FetchRejects ==
    /\ aTimer = "armed"
    /\ aPc \in InFlight
    /\ RequestEnds("network_error", <<>>)
    /\ UNCHANGED <<managerVars, layoutVars, segVars>>

\* the fetch resolves with the status line (lines 160-175)
ResponseArrives(ok) ==
    /\ aTimer = "armed"
    /\ aPc = "fetching"
    /\ aPc' = IF ok THEN "readingJson" ELSE "readingError"
    /\ UNCHANGED <<aTimer, aFetches, aResponse, aResult, managerVars, layoutVars,
                   segVars>>

\* response.text() resolves, the request error is thrown (lines 171-172)
ErrorTextArrives ==
    /\ aTimer = "armed"
    /\ aPc = "readingError"
    /\ RequestEnds("http_error", <<>>)
    /\ UNCHANGED <<managerVars, layoutVars, segVars>>

\* response.json() settles (lines 175-182): the body is not JSON, has no
\* content, or has one
JsonArrives(kind, content) ==
    /\ aTimer = "armed"
    /\ aPc = "readingJson"
    /\ RequestEnds(kind, content)
    /\ UNCHANGED <<managerVars, layoutVars, segVars>>

AdapterInit == AdapterParked /\ ManagerParked /\ LayoutParked /\ SegParked

AdapterNext ==
    \/ AdapterAnalyze
    \/ TimerFires
    \/ AbortRejects
    \/ FetchRejects
    \/ \E ok \in BOOLEAN : ResponseArrives(ok)
    \/ ErrorTextArrives
    \/ \E kind \in {"bad_json", "no_content"} : JsonArrives(kind, <<>>)
    \/ \E content \in AdapterReplies : JsonArrives("content", content)

SpecAdapter == AdapterInit /\ [][AdapterNext]_vars

----------------------------------------------------------------------------
(* Properties of ImageRecognitionManager.analyze (specification Spec) *)

Count(seq, v) == Cardinality({i \in 1..Len(seq) : seq[i] = v})

\* the part of a result that a service decides: everything but the layout
\* data the post-pass adds
SameOutcome(a, b) ==
    /\ a.success = b.success
    /\ a.error = b.error
    /\ a.width = b.width
    /\ a.height = b.height
    /\ a.dominantColors = b.dominantColors
    /\ Len(a.elements) = Len(b.elements)
    /\ \A i \in 1..Len(a.elements) :
          [a.elements[i] EXCEPT !.layout = None] = [b.elements[i] EXCEPT !.layout = None]

RemoteSelected == preferredService = "openapi" /\ openApiService # None

RemoteFailed == openApiResult # None /\ ~openApiResult[1].success

FallbackEnabled == config.enableLocalFallback = "true"

\* C1: with the remote service preferred and configured, the remote call is
\* the first service attempted; when it has failed and local fallback is
\* enabled, the region segmenter is attempted next and the call returns the
\* segmenter's outcome, success or failure, in place of the remote failure.
C1_RemoteFirstThenLocalFallback ==
    RemoteSelected =>
        /\ pc = "tryOpenApi" => trace = <<>>
        /\ trace # <<>> => trace[1] = "openapi"
        /\ (RemoteFailed /\ FallbackEnabled) =>
              /\ pc \in {"tryLocal", "layout", "returned"}
              /\ pc = "tryLocal" => trace = <<"openapi">>
              /\ pc \in {"layout", "returned"} =>
                    /\ trace = <<"openapi", "local">>
                    /\ localResult # None
                    /\ SameOutcome(result[1], localResult[1])

C1_Witness ==
    /\ pc = "returned"
    /\ RemoteSelected /\ RemoteFailed /\ FallbackEnabled
    /\ trace = <<"openapi", "local">>
    /\ result[1].success
    /\ Len(result[1].elements) = 2

\* C2: with the remote service preferred and configured, a failed remote
\* call and local fallback disabled, the call returns the remote failure
\* itself and never invokes the region segmenter.
C2_NoFallbackReturnsRemoteFailure ==
    (RemoteSelected /\ RemoteFailed /\ ~FallbackEnabled) =>
        /\ pc \in {"layout", "returned"}
        /\ trace = <<"openapi">>
        /\ localResult = None
        /\ lastDecode = None
        /\ result = openApiResult

C2_Witness ==
    /\ pc = "returned"
    /\ RemoteSelected /\ RemoteFailed
    /\ config.enableLocalFallback = "false"
    /\ result = openApiResult
    /\ ~result[1].success

\* C3: with the local service preferred, or without a remote adapter, the
\* call goes straight to the region segmenter and never invokes the remote
\* adapter, whatever the local outcome.
C3_LocalNeverCallsRemote ==
    (preferredService = "local" \/ openApiService = None) =>
        /\ pc # "tryOpenApi"
        /\ Count(trace, "openapi") = 0
        /\ openApiResult = None
        /\ fetchCalls = 0
        /\ pc \in {"layout", "returned"} => trace = <<"local">>

C3_Witness ==
    /\ pc = "returned"
    /\ preferredService = "local"
    /\ openApiService # None
    /\ trace = <<"local">>
    /\ ~result[1].success

ServiceUnconfiguredError == Some(<<"OpenAPI service not configured">>)

C5_EachBranchAtMostOnce ==
    /\ Count(trace, "openapi") <= 1
    /\ Count(trace, "local") <= 1
    /\ fetchCalls <= 1

C5_Witness ==
    /\ pc = "returned"
    /\ Count(trace, "openapi") = 1
    /\ Count(trace, "local") = 1
    /\ fetchCalls = 1
    /\ ~result[1].success

RemoteFailureKinds ==
    {"network_error", "timeout", "http_error", "bad_json", "no_content"}

\* the network answer of this call is one of the remote failures
RemoteAnswerIsFailure ==
    /\ lastResponse # None
    /\ \/ lastResponse[1].kind \in RemoteFailureKinds
       \/ lastResponse[1].content = ProseReply

\* C6: the remote adapter is never attempted once the region segmenter has
\* been attempted, and every remote failure (request failed, timeout,
\* malformed body, unparsable reply) leads to the local fallback when the
\* fallback is enabled.
C6_LocalTerminalRemoteFailuresFallBack ==
    /\ \A i, j \in 1..Len(trace) :
          (i < j /\ trace[i] = "local") => trace[j] # "openapi"
    /\ pc = "tryOpenApi" => Count(trace, "local") = 0
    /\ localResult # None => pc \in {"layout", "returned"}
    /\ RemoteAnswerIsFailure =>
          /\ RemoteFailed
          /\ FallbackEnabled =>
                (pc = "tryLocal" \/ (trace = <<"openapi", "local">> /\ localResult # None))

C6_Witness ==
    /\ pc = "returned"
    /\ lastResponse # None
    /\ lastResponse[1].kind = "timeout"
    /\ trace = <<"openapi", "local">>
    /\ ~localResult[1].success
    /\ result = localResult

ConstraintTypes == {"min", "center", "max", "stretch", "scale"}

\* what the last service attempted in this call returned
ServiceResult == IF localResult # None THEN localResult[1] ELSE openApiResult[1]

\* C7: the returned result carries a layoutStructure and a horizontal and a
\* vertical constraint on every element exactly when the outcome is
\* successful, has at least one element and layout analysis is enabled;
\* otherwise it is the service's result, without layoutStructure.
C7_LayoutPassExactlyWhenEnabled ==
    pc = "returned" =>
        IF ServiceResult.success /\ Len(ServiceResult.elements) > 0
           /\ enableLayoutAnalysis
        THEN /\ result[1].layoutStructure # None
             /\ Len(result[1].elements) = Len(ServiceResult.elements)
             /\ \A i \in 1..Len(result[1].elements) :
                   /\ result[1].elements[i].layout # None
                   /\ result[1].elements[i].layout[1].constraints.horizontal
                         \in ConstraintTypes
                   /\ result[1].elements[i].layout[1].constraints.vertical
                         \in ConstraintTypes
        ELSE /\ result[1].layoutStructure = None
             /\ result[1] = ServiceResult

C7_Witness ==
    /\ pc = "returned"
    /\ enableLayoutAnalysis
    /\ result[1].layoutStructure # None
    /\ Len(result[1].elements) = 2
    /\ result[1].elements[1].layout[1].constraints.horizontal = "min"
    /\ result[1].elements[2].layout[1].constraints.horizontal = "max"

IsTaggedFailure(res) ==
    /\ ~res.success
    /\ res.error # None
    /\ Len(res.error[1]) > 0

\* C8: no component raises.  The manager's analyze never ends by throwing;
\* LocalImageProcessor.analyze and the adapter's analyze return a result on
\* the inputs of every call; each failure of image decoding, availability,
\* network request, timeout or reply parsing is a result with success=false
\* and an error message.
C8_FailuresAreReturnedNotThrown ==
    /\ pc # "thrown"
    /\ lastDecode # None =>
          /\ ~LocalImageProcessor_analyze(imageData, lastDecode[1],
                                          managerLocalProcessor(config)).thrown
          /\ localResult # None
          /\ (lastDecode[1] # "ok" \/ ~hasDOM) => IsTaggedFailure(localResult[1])
    /\ lastResponse # None =>
          /\ ~OpenApiVisionService_analyze(lastResponse[1]).thrown
          /\ openApiResult # None
          /\ RemoteAnswerIsFailure => IsTaggedFailure(openApiResult[1])
    /\ (pc = "returned" /\ ~result[1].success) => IsTaggedFailure(result[1])

C8_Witness ==
    /\ pc = "returned"
    /\ lastResponse # None
    /\ lastResponse[1].kind = "content"
    /\ lastResponse[1].content = ProseReply
    /\ lastDecode = Some("load_error")
    /\ hasDOM
    /\ IsTaggedFailure(openApiResult[1])
    /\ IsTaggedFailure(result[1])

----------------------------------------------------------------------------
(* Properties of constraint inference (specification SpecConstraints) *)

\* the rule chain of the claim for one axis: near is the distance d1 from
\* the container's near edge, d2 the distance from its far edge, and the
\* threshold is a tenth of the container size
AxisRule(near, size, container) ==
    LET d1 == near
        d2 == container - (near + size)
    IN  CASE 10 * size > 8 * container -> "stretch"
          [] 10 * size <= 8 * container /\ 10 * Abs(d1 - d2) < container -> "center"
          [] 10 * size <= 8 * container /\ 10 * Abs(d1 - d2) >= container
             /\ d1 < d2 /\ 10 * d1 < container -> "min"
          [] 10 * size <= 8 * container /\ 10 * Abs(d1 - d2) >= container
             /\ ~(d1 < d2 /\ 10 * d1 < container)
             /\ d2 < d1 /\ 10 * d2 < container -> "max"
          [] OTHER -> "scale"

\* C9: each axis gets the constraint of the first matching rule, in the
\* order stretch, center, min, max, scale, independently of the other axis;
\* a 350-wide element in a 400-wide container is stretch, 100-wide elements
\* at x=0 and x=300 in a 400-wide container are min and max.
C9_ConstraintRuleOrder ==
    lConstrained # None =>
        \A i \in 1..Len(lElements) :
            LET e == lElements[i]
                c == lConstrained[1][i].layout[1].constraints
            IN  /\ c.horizontal = AxisRule(e.x, e.width, lWidth)
                /\ c.vertical = AxisRule(e.y, e.height, lHeight)
                /\ (lWidth = 400 /\ e.width = 350) => c.horizontal = "stretch"
                /\ (lWidth = 400 /\ e.width = 100 /\ e.x = 0) => c.horizontal = "min"
                /\ (lWidth = 400 /\ e.width = 100 /\ e.x = 300) => c.horizontal = "max"

\* an element for which both the center rule and the min rule apply
C9_Witness ==
    /\ lConstrained # None
    /\ lWidth = 400
    /\ lHeight = 300
    /\ lElements[1].x = 30
    /\ lElements[1].width = 320
    /\ lElements[1].y = 30
    /\ lElements[1].height = 100
    /\ lConstrained[1][1].layout[1].constraints.horizontal = "center"
    /\ lConstrained[1][1].layout[1].constraints.vertical = "scale"

----------------------------------------------------------------------------
(* Properties of the region segmenter (specification SpecSegment) *)

IsUniform(img) == img.colorA = img.colorB

\* C10: an image whose pixels all have the same color yields exactly one
\* region from detection and merging, and exactly one rectangle element
\* from local analysis.
C10_UniformImageOneRegion ==
    IsUniform(sImage) =>
        /\ sRegions # None => Len(sRegions[1]) = 1
        /\ (sResult # None /\ sResult[1].value[1].success) =>
              Len(sResult[1].value[1].elements) = 1

\* the uniform 40x40 image under the default configuration: the fourth
\* grid cell lies inside the merged bounding box and stays a region
C10_FailingInput ==
    /\ sImage = UniformImage(40, 40, White)
    /\ sConfig = LocalImageProcessor(None, None, None)
    /\ sRegions # None
    /\ Len(sRegions[1]) = 2
    /\ [k \in 1..2 |-> <<sRegions[1][k].x, sRegions[1][k].y,
                         sRegions[1][k].width, sRegions[1][k].height>>]
          = <<(<<0, 0, 40, 40>>), (<<20, 20, 20, 20>>)>>
----------------------------------------------------------------------------
(* Properties of alignment detection (specification SpecAlignment) *)

AlignmentKeys ==
    {<<"leftAligned", "left">>, <<"rightAligned", "right">>,
     <<"topAligned", "top">>, <<"bottomAligned", "bottom">>,
     <<"centerXAligned", "centerX">>, <<"centerYAligned", "centerY">>}

\* the doubled coordinate of element i that the grouping `key` looks at
AlignValue2(i, key) == calculateBounds(lElements)[i][key]

\* elements i and j are members of one group of the grouping
SameGroup(groups, i, j) ==
    \E g \in 1..Len(groups) :
        /\ \E m \in 1..Len(groups[g]) : groups[g][m] = i
        /\ \E m \in 1..Len(groups[g]) : groups[g][m] = j

\* C11: in each of the six groupings of detectAlignment, two elements
\* whose coordinates differ by more than alignmentThreshold are never
\* members of the same group.
C11_FarApartNeverGrouped ==
    lAlignment # None =>
        \A k \in AlignmentKeys : \A i, j \in 1..Len(lElements) :
            Abs(AlignValue2(i, k[2]) - AlignValue2(j, k[2])) > 2 * alignmentThreshold
                => ~SameGroup(lAlignment[1][k[1]], i, j)

\* left edges 0, 5, 10: one left-aligned group although 0 and 10 are 10 apart
C11_FailingInput ==
    /\ lAlignment # None
    /\ Len(lElements) = 3
    /\ lElements[1].x = 0 /\ lElements[2].x = 5 /\ lElements[3].x = 10
    /\ lAlignment[1].leftAligned = <<(<<1, 2, 3>>)>>

\* C12: in each of the six groupings of detectAlignment, two elements
\* whose coordinates differ by at most alignmentThreshold are members of
\* the same group, whatever the other elements and the input order; every
\* element is a member of exactly one group.
C12_CloseAlwaysGrouped ==
    lAlignment # None =>
        \A k \in AlignmentKeys :
            /\ \A i, j \in 1..Len(lElements) :
                  Abs(AlignValue2(i, k[2]) - AlignValue2(j, k[2]))
                      <= 2 * alignmentThreshold
                      => SameGroup(lAlignment[1][k[1]], i, j)
            /\ \A i \in 1..Len(lElements) :
                  Cardinality({<<g, m>> \in (1..Len(lElements)) \X (1..Len(lElements)) :
                                  /\ g <= Len(lAlignment[1][k[1]])
                                  /\ m <= Len(lAlignment[1][k[1]][g])
                                  /\ lAlignment[1][k[1]][g][m] = i}) = 1

\* left edges 11, 0, 5 given out of order: 0 and 5 share a group, 11 does not
C12_Witness ==
    /\ lAlignment # None
    /\ Len(lElements) = 3
    /\ lElements[1].x = 11 /\ lElements[2].x = 0 /\ lElements[3].x = 5
    /\ lAlignment[1].leftAligned = <<(<<2, 3>>), (<<1>>)>>
----------------------------------------------------------------------------
(* Properties of the remote adapter (specification SpecAdapter) *)

\* analyze has returned an analysis result for a reply text
AnsweredReply ==
    /\ aPc = "returned"
    /\ aResponse # None
    /\ aResponse[1].kind = "content"
    /\ aResult # None
    /\ ~aResult[1].thrown

\* the result that analyze returned
AResult == aResult[1].value[1]

\* the element objects that a reply text holds, in order
ElementsOf(content) ==
    LET atoms == SelectSeq(content, LAMBDA a : a.k = "element")
    IN  [i \in 1..Len(atoms) |-> atoms[i].e[1]]

\* the reply is one object of the requested schema, alone, padded, fenced
\* or in prose, and each of its elements names a type
WellTypedReply(content) ==
    /\ content \in AdapterReplies \ OddReplies
    /\ \A i \in 1..Len(ElementsOf(content)) : ElementsOf(content)[i].type # None

HexDigits ==
    {"0", "1", "2", "3", "4", "5", "6", "7", "8", "9",
     "a", "b", "c", "d", "e", "f", "A", "B", "C", "D", "E", "F"}

\* the digits of a color string: the string without its leading "#"
DigitsOf(colorStr) ==
    IF colorStr # <<>> /\ Head(colorStr) = "#" THEN Tail(colorStr) ELSE colorStr

WellFormedHex(colorStr) ==
    /\ Len(DigitsOf(colorStr)) \in {3, 6}
    /\ \A i \in 1..Len(DigitsOf(colorStr)) : DigitsOf(colorStr)[i] \in HexDigits

MidGray == [r |-> <<1, 2>>, g |-> <<1, 2>>, b |-> <<1, 2>>]

\* the color the claim gives a color string
ExpectedColor(colorStr) ==
    LET d       == DigitsOf(colorStr)
        ch(a, b) == Frac(16 * hexValue(a) + hexValue(b), 255)
    IN  IF ~WellFormedHex(colorStr) THEN MidGray
        ELSE IF Len(d) = 6
        THEN [r |-> ch(d[1], d[2]), g |-> ch(d[3], d[4]), b |-> ch(d[5], d[6])]
        ELSE [r |-> ch(d[1], d[1]), g |-> ch(d[2], d[2]), b |-> ch(d[3], d[3])]

\* C13: a reply whose elements carry malformed hex colors is still analysed
\* with success; a well-formed 3- or 6-digit hex color becomes its channel
\* values divided by 255, every other color string becomes mid-gray
\* (0.5, 0.5, 0.5).
C13_MalformedHexIsGray ==
    (AnsweredReply /\ WellTypedReply(aResponse[1].content)) =>
        LET elems == ElementsOf(aResponse[1].content)
        IN  /\ AResult.success
            /\ Len(AResult.elements) = Len(elems)
            /\ \A i \in 1..Len(elems) :
                  (elems[i].color # None /\ elems[i].color # Some(<<>>)) =>
                      AResult.elements[i].color = Some(ExpectedColor(elems[i].color[1]))

\* the color "#ZZZ": three characters after the "#", each channel is
\* parseInt("ZZ", 16) / 255, not a number
C13_FailingInput ==
    /\ AnsweredReply
    /\ Len(ElementsOf(aResponse[1].content)) = 1
    /\ ElementsOf(aResponse[1].content)[1].color = Some(<<"#", "Z", "Z", "Z">>)
    /\ AResult.success
    /\ AResult.elements[1].color = Some([r |-> <<0, 0>>, g |-> <<0, 0>>, b |-> <<0, 0>>])

ElementTypes == {"rectangle", "circle", "text", "image", "frame", "line"}

\* the type the claim gives a type string: the synonym table applied to
\* the string in lower case, rectangle for every other string
ExpectedType(type) ==
    IF Join(toLowerCase(type)) \in DOMAIN typeMap
    THEN typeMap[Join(toLowerCase(type))]
    ELSE "rectangle"

\* C14: every element of a parsed reply gets one of the six element types:
\* its type string is looked up in the synonym table without regard to
\* case, a string outside the table becomes rectangle, and such a string
\* never makes the analysis of the reply fail.
C14_TypesNormalized ==
    (AnsweredReply /\ WellTypedReply(aResponse[1].content)) =>
        LET elems == ElementsOf(aResponse[1].content)
        IN  /\ AResult.success
            /\ Len(AResult.elements) = Len(elems)
            /\ \A i \in 1..Len(elems) :
                  /\ AResult.elements[i].type \in ElementTypes
                  /\ AResult.elements[i].type = ExpectedType(elems[i].type[1])

\* the type "constructor": the lookup finds Object.prototype.constructor
C14_FailingInput ==
    /\ AnsweredReply
    /\ Len(ElementsOf(aResponse[1].content)) = 1
    /\ ElementsOf(aResponse[1].content)[1].type = Some(TypeConstructor)
    /\ AResult.success
    /\ AResult.elements[1].type \notin ElementTypes

\* the text each of the three strategies would parse: the whole reply, the
\* capture of the fenced block, the match of the object with "elements"
StrategyTexts(content) == <<Some(content), codeBlockMatch(content), jsonMatch(content)>>

\* a strategy yields valid structured data: it has a text, the text parses
\* and the parsed value converts to an element list
StrategyYields(text) ==
    /\ Len(text) = 1
    /\ ~JSON_parse(text[1]).thrown
    /\ ~responseElements(JSON_parse(text[1]).value[1]).thrown

ParseFailure(res) ==
    /\ ~res.success
    /\ res.elements = <<>>
    /\ res.error # None
    /\ Len(res.error[1]) >= 2
    /\ res.error[1][2] = "response parse failed"

\* C15: when none of the three strategies yields valid structured data the
\* adapter's analyze returns a parse failure: success=false, no elements.
C15_NoStrategyNoResult ==
    (AnsweredReply
       /\ \A k \in 1..3 : ~StrategyYields(StrategyTexts(aResponse[1].content)[k]))
        => ParseFailure(AResult)

\* a fenced block is found but its text does not parse
C15_Witness ==
    /\ AnsweredReply
    /\ aResponse[1].content = FencedPlain(BrokenObject)
    /\ codeBlockMatch(aResponse[1].content) = Some(BrokenObject)
    /\ ParseFailure(AResult)

\* the first strategy, in the order direct, fenced block, object scan, that
\* yields valid structured data (0 when none does)
FirstYielding(content) ==
    IF StrategyYields(StrategyTexts(content)[1]) THEN 1
    ELSE IF StrategyYields(StrategyTexts(content)[2]) THEN 2
    ELSE IF StrategyYields(StrategyTexts(content)[3]) THEN 3
    ELSE 0

\* C16: the strategies are tried in order with fall-through: whenever at
\* least one of them yields valid structured data the parse succeeds, with
\* the elements of the first that does, also when an earlier strategy found
\* a text that did not parse.
C16_FallThroughToNextStrategy ==
    (AnsweredReply /\ FirstYielding(aResponse[1].content) # 0) =>
        LET text == StrategyTexts(aResponse[1].content)[
                        FirstYielding(aResponse[1].content)][1]
        IN  /\ AResult.success
            /\ AResult.elements = responseElements(JSON_parse(text).value[1]).value[1]

\* a fenced block that does not parse, then an object with "elements":
\* the third strategy would yield, the parse fails
C16_FailingInput ==
    /\ AnsweredReply
    /\ aResponse[1].content
          = FencedPlain(BrokenObject) \o InProse(ObjectText(400, 300, <<>>))
    /\ FirstYielding(aResponse[1].content) = 3
    /\ ParseFailure(AResult)

\* C17: the timer of a request is armed only while the request is in
\* flight; when it fires the request ends aborted, and analyze returns a
\* failure with an empty element list, never an element list; no timer
\* outlives the call.
C17_TimeoutAbortsAndFails ==
    /\ aTimer = "armed" => aPc \in InFlight
    /\ aTimer = "fired" => aPc \in InFlight \cup {"returned"}
    /\ aPc = "returned" => aTimer \in {"fired", "cleared"}
    /\ (aTimer = "fired" /\ aPc = "returned") =>
          /\ aResponse # None
          /\ aResponse[1].kind = "timeout"
          /\ ~aResult[1].thrown
          /\ ~AResult.success
          /\ AResult.elements = <<>>
          /\ AResult.error # None

C17_Witness ==
    /\ aTimer = "fired"
    /\ aPc = "returned"
    /\ ~AResult.success
    /\ AResult.elements = <<>>
    /\ AResult.error
          = Some(<<"OpenAPI service call failed", "The operation was aborted">>)

\* C18: every call of the adapter's analyze issues exactly one network
\* request, however the request ends: with a reply, a non-2xx status, a
\* malformed body, a timeout or a network error.
C18_ExactlyOneRequest ==
    /\ aPc = "idle" => aFetches = 0
    /\ aPc # "idle" => aFetches = 1
    /\ aPc = "returned" =>
          /\ aResponse # None
          /\ aResponse[1].kind
                \in {"content", "http_error", "bad_json", "no_content", "timeout",
                     "network_error"}

C18_Witness ==
    /\ aPc = "returned"
    /\ aResponse # None
    /\ aResponse[1].kind = "http_error"
    /\ aFetches = 1
    /\ ~AResult.success

NonNegativeSizes(res) ==
    \A i \in 1..Len(res.elements) :
        res.elements[i].width >= 0 /\ res.elements[i].height >= 0

\* C19: every element of every result returned by the region segmenter,
\* the remote adapter or the manager has width >= 0 and height >= 0.
C19_SizesNonNegative ==
    /\ (aResult # None /\ ~aResult[1].thrown) => NonNegativeSizes(AResult)
    /\ (sResult # None /\ ~sResult[1].thrown) => NonNegativeSizes(sResult[1].value[1])
    /\ result # None => NonNegativeSizes(result[1])

\* a reply whose element has width -5
C19_FailingInput ==
    /\ AnsweredReply
    /\ Len(ElementsOf(aResponse[1].content)) = 1
    /\ ElementsOf(aResponse[1].content)[1].width = Some(-5)
    /\ AResult.success
    /\ AResult.elements[1].width = -5

----------------------------------------------------------------------------
(* Colors of the region segmenter (specification SpecSegment) *)

\* the channel is a number between 0 and 1
InUnitRange(f) == f[2] > 0 /\ 0 <= f[1] /\ f[1] <= f[2]

ColorInRange(c) == InUnitRange(c.r) /\ InUnitRange(c.g) /\ InUnitRange(c.b)

\* C20: each channel of every color the core produces lies in [0, 1]: the
\* colors of detected and merged regions, of the elements made from them,
\* the entries of the dominant-color palette, and the colors parsed from
\* hex strings.
C20_ChannelsInUnitRange ==
    /\ sRegions # None =>
          \A i \in 1..Len(sRegions[1]) : ColorInRange(sRegions[1][i].color)
    /\ (sResult # None /\ ~sResult[1].thrown /\ sResult[1].value[1].success) =>
          /\ \A i \in 1..Len(sResult[1].value[1].elements) :
                ColorInRange(sResult[1].value[1].elements[i].color[1])
          /\ \A i \in 1..Len(sResult[1].value[1].dominantColors[1]) :
                ColorInRange(sResult[1].value[1].dominantColors[1][i])
    /\ (aResult # None /\ ~aResult[1].thrown) =>
          \A i \in 1..Len(AResult.elements) :
              AResult.elements[i].color # None =>
                  ColorInRange(AResult.elements[i].color[1])

\* a white image: the quantized channel is round(255 / 32) * 32 = 256
C20_FailingInput ==
    /\ sImage = UniformImage(20, 20, White)
    /\ sResult # None
    /\ sResult[1].value[1].success
    /\ sResult[1].value[1].dominantColors
          = Some(<<[r |-> <<256, 255>>, g |-> <<256, 255>>, b |-> <<256, 255>>]>>)

----------------------------------------------------------------------------
(* Merging two regions (specification SpecMerge) *)

\* the channel f of the merged region is the pixel-count-weighted mean of
\* the channels fa and fb: f * (na + nb) = fa * na + fb * nb
WeightedMean(f, fa, na, fb, nb) ==
    FScale(f, na + nb) = FAdd(FScale(fa, na), FScale(fb, nb))

\* C21: for every pair of regions that meets the merge predicate, the
\* merged region's bounding box is the exact union of the two boxes (min of
\* left and top, max of right and bottom), its pixelCount is the sum of the
\* two pixel counts, and its color is the pixel-count-weighted average of
\* the two colors.
C21_MergeIsUnionAndWeightedMean ==
    sMerged # None =>
        LET a == sPair[1]
            b == sPair[2]
            m == sMerged[1]
        IN  /\ m.x = Min(a.x, b.x)
            /\ m.y = Min(a.y, b.y)
            /\ m.x + m.width = Max(a.x + a.width, b.x + b.width)
            /\ m.y + m.height = Max(a.y + a.height, b.y + b.height)
            /\ m.pixelCount = a.pixelCount + b.pixelCount
            /\ WeightedMean(m.color.r, a.color.r, a.pixelCount, b.color.r, b.pixelCount)
            /\ WeightedMean(m.color.g, a.color.g, a.pixelCount, b.color.g, b.pixelCount)
            /\ WeightedMean(m.color.b, a.color.b, a.pixelCount, b.color.b, b.pixelCount)

\* a 20x20 white cell merged with the 5x20 near-white cell to its right
C21_Witness ==
    /\ sPair = <<CellRegion(0, 0, 20, 20, White), CellRegion(20, 0, 5, 20, NearWhite)>>
    /\ sMerged # None
    /\ sMerged[1].width = 25
    /\ sMerged[1].pixelCount = 500
    /\ sMerged[1].color.r = <<251, 255>>

----------------------------------------------------------------------------
(* The scan limit of the region segmenter (specification SpecSegment) *)

\* C22: region detection halts once maxRegions candidate cells have been
\* scanned: for every image at most maxRegions grid cells are examined, and
\* at most maxRegions regions, hence elements, are produced.
C22_AtMostMaxRegionsCellsScanned ==
    /\ sScanned # None =>
          /\ sScanned[1] <= sConfig.maxRegions
          /\ Len(sRegions[1]) <= sConfig.maxRegions
    /\ (sResult # None /\ sResult[1].value[1].success) =>
          Len(sResult[1].value[1].elements) <= sConfig.maxRegions

\* a 25x40 image with minRegionSize 101 and maxRegions 2: the 5x20 cell at
\* (20, 0) is examined and discarded, the scan goes on to the third cell
C22_FailingInput ==
    /\ sImage = UniformImage(25, 40, White)
    /\ sConfig = LocalImageProcessor(None, Some(101), Some(2))
    /\ sScanned = Some(3)
    /\ sRegions # None
    /\ Len(sRegions[1]) <= 2

----------------------------------------------------------------------------
(* Rows, columns and the grid (specification SpecGrid) *)

\* the center of element i on an axis, doubled
Center2(i, axis) ==
    IF axis = "rows" THEN 2 * lElements[i].y + lElements[i].height
    ELSE 2 * lElements[i].x + lElements[i].width

\* the centers that start a new group: those more than 2 x alignmentThreshold
\* above the next center below them
Breaks(axis) ==
    LET centers == {Center2(m, axis) : m \in 1..Len(lElements)}
    IN  {b \in centers :
            \E a \in centers :
                /\ a < b
                /\ ~\E c \in centers : a < c /\ c < b
                /\ b - a > 2 * (2 * alignmentThreshold)}

\* the groups that are to be reported on an axis, as sets of indices: i and
\* j are in one group when no new group starts between their centers
ExpectedGroups(axis) ==
    LET breaks       == Breaks(axis)
        linked(i, j) == ~\E b \in breaks :
                            /\ Min(Center2(i, axis), Center2(j, axis)) < b
                            /\ b <= Max(Center2(i, axis), Center2(j, axis))
    IN  {g \in {{j \in 1..Len(lElements) : linked(i, j)} : i \in 1..Len(lElements)} :
            Cardinality(g) >= minGroupSize}

Members(group) == {group.elements[m] : m \in 1..Len(group.elements)}

GroupsAsExpected(groups, axis) ==
    /\ {Members(groups[k]) : k \in 1..Len(groups)} = ExpectedGroups(axis)
    /\ \A k \in 1..Len(groups) :
          /\ Cardinality(Members(groups[k])) = Len(groups[k].elements)
          /\ \A m \in 1..(Len(groups[k].elements) - 1) :
                Center2(groups[k].elements[m], axis)
                    <= Center2(groups[k].elements[m + 1], axis)
    /\ \A i \in 1..Len(lElements) :
          Cardinality({k \in 1..Len(groups) : i \in Members(groups[k])}) <= 1

\* C23: rows and columns are found by sorting the elements by center-Y
\* (rows) or center-X (columns) and starting a new group exactly when the
\* step from the previous sorted value exceeds 2 x alignmentThreshold; only
\* groups of at least minGroupSize members are reported, and every element
\* index belongs to at most one reported row and at most one reported
\* column.
C23_RowsAndColumnsBySingleLinkage ==
    lStructure # None =>
        /\ GroupsAsExpected(lStructure[1].rows, "rows")
        /\ GroupsAsExpected(lStructure[1].columns, "columns")

\* two bands of two elements 11 apart and a single element below them: two
\* rows, the single element in none; the left column holds three elements
C23_Witness ==
    /\ lElements = BandElements(<< <<(<<30, 10>>), (<<0, 100>>)>>,
                                  <<(<<41, 10>>), (<<0, 100>>)>>,
                                  <<(<<70, 10>>), (<<0>>)>> >>)
    /\ lStructure # None
    /\ [k \in 1..Len(lStructure[1].rows) |-> lStructure[1].rows[k].elements]
          = <<(<<1, 2>>), (<<3, 4>>)>>
    /\ [k \in 1..Len(lStructure[1].columns) |-> lStructure[1].columns[k].elements]
          = <<(<<1, 3, 5>>), (<<2, 4>>)>>

\* C24: analyzeStructure returns an inferred grid if and only if at least
\* one axis has two or more detected groups; when present, rowCount and
\* columnCount are the numbers of detected rows and columns.
C24_GridIffTwoGroupsOnAnAxis ==
    lStructure # None =>
        LET rowCount    == Cardinality(ExpectedGroups("rows"))
            columnCount == Cardinality(ExpectedGroups("columns"))
        IN  /\ lStructure[1].gridInfo # None <=> (rowCount >= 2 \/ columnCount >= 2)
            /\ lStructure[1].gridInfo # None =>
                  /\ lStructure[1].gridInfo[1].rowCount = rowCount
                  /\ lStructure[1].gridInfo[1].columnCount = columnCount
                  /\ Len(lStructure[1].rows) = rowCount
                  /\ Len(lStructure[1].columns) = columnCount

\* two rows whose elements share no column: a grid of two rows and no
\* column
C24_Witness ==
    /\ lElements = BandElements(<< <<(<<0, 10>>), (<<0, 100>>)>>,
                                  <<(<<41, 10>>), (<<30, 130>>)>> >>)
    /\ lStructure # None
    /\ lStructure[1].gridInfo # None
    /\ lStructure[1].gridInfo[1].rowCount = 2
    /\ lStructure[1].gridInfo[1].columnCount = 0

\* the integer nearest to v2 / 2, the upper one for a half
NearestInteger(v2) == CHOOSE n \in 0..v2 : 2 * n - 1 <= v2 /\ v2 < 2 * n + 1

Occurrences(seq, v) == Cardinality({i \in 1..Len(seq) : seq[i] = v})

\* the most frequent value of a non-empty list; among equally frequent
\* values the one that occurs first in the list
ModeFirstSeen(seq) ==
    seq[CHOOSE i \in 1..Len(seq) :
            /\ \A j \in 1..Len(seq) : Occurrences(seq, seq[j]) <= Occurrences(seq, seq[i])
            /\ \A j \in 1..(i - 1) : Occurrences(seq, seq[j]) < Occurrences(seq, seq[i])]

\* the extent of a group of indices on an axis, and its least center
SpanOf(g, axis) ==
    LET start(i)  == IF axis = "rows" THEN lElements[i].y ELSE lElements[i].x
        extent(i) == IF axis = "rows" THEN lElements[i].height ELSE lElements[i].width
    IN  [start  |-> CHOOSE v \in {start(i) : i \in g} :
                       \A w \in {start(i) : i \in g} : v <= w,
         end    |-> CHOOSE v \in {start(i) + extent(i) : i \in g} :
                       \A w \in {start(i) + extent(i) : i \in g} : w <= v,
         center |-> CHOOSE v \in {Center2(i, axis) : i \in g} :
                       \A w \in {Center2(i, axis) : i \in g} : v <= w]

\* spans ordered by their start; spans that start together by their center
RECURSIVE OrderedSpans(_)
OrderedSpans(spans) ==
    IF spans = {} THEN <<>>
    ELSE LET first == CHOOSE a \in spans :
                          \A b \in spans :
                              \/ a.start < b.start
                              \/ a.start = b.start /\ a.center <= b.center
         IN  <<first>> \o OrderedSpans(spans \ {first})

\* the gap estimate of an axis: the groups in order of position, the
\* distances between consecutive groups that are apart, their mode
ExpectedGap(axis) ==
    LET spans == OrderedSpans({SpanOf(g, axis) : g \in ExpectedGroups(axis)})
        dists == [i \in 1..(Len(spans) - 1) |-> spans[i + 1].start - spans[i].end]
        gaps  == SelectSeq(dists, LAMBDA d : d > 0)
    IN  IF gaps = <<>> THEN 0 ELSE ModeFirstSeen(gaps)

----------------------------------------------------------------------------
(* Constraint generation as a function of the elements (specification *)
(* SpecConstraints)                                                   *)

ConstraintsOf(elements) ==
    [i \in 1..Len(elements) |-> elements[i].layout[1].constraints]

\* C26: generateAllConstraints is idempotent on geometry: run a second time
\* on the same input, or on its own output with the same container size, it
\* yields the same horizontal and vertical constraint for every element.
C26_ConstraintsIdempotent ==
    lAgain # None =>
        /\ Len(lAgain[1].onOutput) = Len(lElements)
        /\ Len(lAgain[1].onInput) = Len(lElements)
        /\ ConstraintsOf(lAgain[1].onOutput) = ConstraintsOf(lConstrained[1])
        /\ ConstraintsOf(lAgain[1].onInput) = ConstraintsOf(lConstrained[1])

\* two elements with different constraints on both axes
C26_Witness ==
    /\ lAgain # None
    /\ Len(lElements) = 2
    /\ lConstrained[1][1].layout[1].constraints.horizontal = "center"
    /\ lConstrained[1][1].layout[1].constraints.vertical = "scale"
    /\ lConstrained[1][2].layout[1].constraints.horizontal
          # lConstrained[1][1].layout[1].constraints.horizontal
    /\ ConstraintsOf(lAgain[1].onOutput) = ConstraintsOf(lConstrained[1])

SameButLayout(out, in) ==
    /\ out.type = in.type
    /\ out.x = in.x
    /\ out.y = in.y
    /\ out.width = in.width
    /\ out.height = in.height
    /\ out.color = in.color
    /\ out.text = in.text

\* C27: generateAllConstraints returns a new list and leaves its input
\* untouched: the output has the length and order of the input, every
\* output element has the type, x, y, width, height, color and text of the
\* input element at its index, and no input element gains or changes
\* layout metadata.
C27_InputUntouchedOutputSameElements ==
    /\ [](lConstrained # None =>
            /\ Len(lConstrained[1]) = Len(lElements)
            /\ \A i \in 1..Len(lElements) :
                  /\ SameButLayout(lConstrained[1][i], lElements[i])
                  /\ lConstrained[1][i].layout # None
                  /\ lElements[i].layout = None)
    /\ [][lElements' = lElements]_vars

\* a rectangle and a text element with a color, both constrained
C27_Witness ==
    /\ lConstrained # None
    /\ Len(lElements) = 2
    /\ lElements[2].type = "text"
    /\ lElements[2].text = Some("hi")
    /\ lConstrained[1][2].text = Some("hi")
    /\ lConstrained[1][2].color = lElements[2].color
    /\ lElements[2].layout = None

----------------------------------------------------------------------------
(* Independence of analyze calls (specification SpecConcurrent) *)

\* C28: analyze holds no mutable state across invocations: no step of an
\* analyze call changes the manager's configuration or whether a remote
\* adapter is present, and the result a call returns, whatever another
\* call does in between, is the function analyzeOutcome of the call's own
\* arguments, the manager's fields and the answers this call received.
C28_CallsAreIndependent ==
    /\ [](pc = "returned" =>
            result = analyzeOutcome(CallArgs(imageData, preferredService,
                                             enableLayoutAnalysis),
                                    config, openApiService, hasDOM,
                                    lastResponse, lastDecode))
    /\ [](bPc = "returned" =>
            bResult = analyzeOutcome(bArgs, config, openApiService, hasDOM,
                                     bResponse, bDecode))
    /\ [][config' = config /\ openApiService' = openApiService]_vars

\* both calls have returned, with different results, and the second call
\* asked the adapter while the first was still waiting for its own answer
C28_Witness ==
    /\ pc = "returned"
    /\ bPc = "returned"
    /\ lastResponse # None
    /\ bResponse # None
    /\ lastResponse # bResponse
    /\ result[1].success
    /\ ~bResult[1].success
    /\ bDecode = None

----------------------------------------------------------------------------
(* Shape of the results of the manager (specification Spec) *)

\* C30: every result returned by ImageRecognitionManager.analyze with
\* success = false has an empty element list, width 0, height 0, a non-empty
\* error description and no layoutStructure; every result with
\* success = true carries no error description.
C30_FailureAndSuccessShape ==
    pc = "returned" =>
        /\ ~result[1].success =>
              /\ result[1].elements = <<>>
              /\ result[1].width = 0
              /\ result[1].height = 0
              /\ result[1].error # None
              /\ result[1].error[1] # <<>>
              /\ result[1].layoutStructure = None
        /\ result[1].success => result[1].error = None

\* the remote attempt and the local fallback have both failed, with layout
\* analysis requested
C30_Witness ==
    /\ pc = "returned"
    /\ ~result[1].success
    /\ trace = <<"openapi", "local">>
    /\ ~openApiResult[1].success
    /\ enableLayoutAnalysis

----------------------------------------------------------------------------
(* The three forms of a reply (specification SpecAdapter) *)

\* what the adapter's analyze returns for the reply text `content`
AnalysisOf(content) ==
    OpenApiVisionService_analyze([kind |-> "content", content |-> content]).value[1]

\* C29: the same payload given as a bare well-formed reply, wrapped in a
\* fenced code block, or embedded in surrounding prose parses to the same
\* element list in all three cases.
C29_ThreeFormsParseAlike ==
    \A obj \in ReplyObjects :
        (/\ AnsweredReply
         /\ aResponse[1].content \in {Fenced(obj), FencedPlain(obj), InProse(obj)})
            => /\ AResult.success = AnalysisOf(obj).success
               /\ AResult.elements = AnalysisOf(obj).elements

\* a payload whose first element is a button labelled "[OK]": bare it is
\* analysed with two elements, between sentences the object scan ends
\* inside the label and the parse fails
C29_FailingInput ==
    /\ AnsweredReply
    /\ aResponse[1].content = InProse(BracketObject)
    /\ jsonMatch(aResponse[1].content) = Some(SubSeq(BracketObject, 1, 14))
    /\ ~AResult.success
    /\ AnalysisOf(BracketObject).success
    /\ Len(AnalysisOf(BracketObject).elements) = 2
    /\ AnalysisOf(Fenced(BracketObject)) = AnalysisOf(BracketObject)

----------------------------------------------------------------------------
(* The merge pass as a partition (specification SpecMergePass) *)

RECURSIVE SumPixels(_)
SumPixels(regions) ==
    IF regions = <<>> THEN 0 ELSE Head(regions).pixelCount + SumPixels(Tail(regions))

BoxContains(outer, inner) ==
    /\ outer.x <= inner.x
    /\ outer.y <= inner.y
    /\ outer.x + outer.width >= inner.x + inner.width
    /\ outer.y + outer.height >= inner.y + inner.height

\* the output regions that absorbed input index i
AbsorbedBy(i) ==
    {k \in 1..Len(sGroups[1]) : \E m \in 1..Len(sGroups[1][k]) : sGroups[1][k][m] = i}

\* C31: the merge pass partitions its input: every input region is absorbed
\* into exactly one output region and is never considered again once
\* merged, so the output has at most as many regions as the input, the sum
\* of pixelCount over the output equals the sum over the input, and each
\* output region's bounding box contains the bounding boxes of all regions
\* it absorbed.
C31_MergePassPartitions ==
    sGroups # None =>
        /\ Len(sGroups[1]) = Len(sRegions[1])
        /\ Len(sRegions[1]) <= Len(sList)
        /\ \A i \in 1..Len(sList) : Cardinality(AbsorbedBy(i)) = 1
        /\ \A k \in 1..Len(sGroups[1]) :
              /\ Len(sGroups[1][k]) >= 1
              /\ \A m, n \in 1..Len(sGroups[1][k]) :
                    sGroups[1][k][m] = sGroups[1][k][n] => m = n
              /\ \A m \in 1..Len(sGroups[1][k]) :
                    /\ sGroups[1][k][m] \in 1..Len(sList)
                    /\ BoxContains(sRegions[1][k], sList[sGroups[1][k][m]])
        /\ SumPixels(sRegions[1]) = SumPixels(sList)

\* three regions in, two out: the first absorbed the third after the
\* second was left alone
C31_Witness ==
    /\ sGroups = Some(<< <<1, 3>>, <<2>> >>)
    /\ Len(sRegions[1]) = 2
    /\ sRegions[1][1].width = 40
    /\ sRegions[1][1].pixelCount = 800

----------------------------------------------------------------------------
(* Symmetry of the merge predicate (specification SpecMerge) *)

\* C39: the merge predicate is symmetric: for all regions a and b and every
\* colorThreshold, shouldMerge(a, b) equals shouldMerge(b, a); stated for
\* the pair of regions at hand and, once they are merged, for the merged
\* region against every cell.
C39_ShouldMergeSymmetric ==
    /\ shouldMerge(sPair[1], sPair[2], sConfig)
          = shouldMerge(sPair[2], sPair[1], sConfig)
    /\ sMerged # None =>
          \A c \in MergeCells :
              shouldMerge(sMerged[1], c, sConfig) = shouldMerge(c, sMerged[1], sConfig)

\* the second region ends where the first begins, they merge, and the
\* merged region is adjacent to a third cell
C39_Witness ==
    /\ sMerged # None
    /\ sPair[2].x + sPair[2].width = sPair[1].x
    /\ shouldMerge(sPair[2], sPair[1], sConfig)
    /\ \E c \in MergeCells : /\ c.x + c.width < sMerged[1].x + sMerged[1].width
                             /\ shouldMerge(c, sMerged[1], sConfig)

----------------------------------------------------------------------------
(* The default of enableLocalFallback (specification Spec) *)

\* the manager was constructed from a configuration whose
\* enableLocalFallback is absent or undefined
FallbackNotGiven ==
    \E given \in GivenConfigs :
        /\ given.enableLocalFallback \in {"absent", "undefined"}
        /\ config = managerConfig(given)
        /\ openApiService = managerOpenApiService(given)

\* C32: when the configuration given to ImageRecognitionManager does not set
\* enableLocalFallback to a boolean (the key is absent, or present with
\* value undefined), local fallback is enabled: a failed remote attempt is
\* followed by a local attempt.
C32_FallbackOnByDefault ==
    (/\ FallbackNotGiven
     /\ pc = "returned"
     /\ openApiResult # None
     /\ ~openApiResult[1].success)
        => trace = <<"openapi", "local">>

\* enableLocalFallback: undefined is copied by the spread over the default:
\* the remote attempt fails and analyze returns its failure
C32_FailingInput ==
    /\ config.enableLocalFallback = "undefined"
    /\ pc = "returned"
    /\ openApiResult # None
    /\ ~openApiResult[1].success
    /\ trace = <<"openapi">>
    /\ result = openApiResult

----------------------------------------------------------------------------
(* The pending queue of HostCommunicationManager (specification SpecHost) *)

\* C34: the pending queue never holds more than 100 messages: when a
\* message other than ping is sent while the host is not ready and 100
\* messages are already pending, the oldest pending message is dropped and
\* the new one is appended at the tail.
C34_PendingQueueBounded ==
    /\ [](Len(pendingMessages) <= 100)
    /\ [][\A type \in SendTypes \ {"ping"} :
            (SendToHost(type) /\ ~hostReady /\ Len(pendingMessages) = 100)
                => /\ pendingMessages'
                        = Append(Tail(pendingMessages), HostMessage(type, hClock'))
                   /\ droppedMessages'
                        = Append(droppedMessages, Head(pendingMessages))
                   /\ uiPosts' = uiPosts]_vars

\* 101 messages were sent to a host that is not ready: the first was
\* dropped, the last is at the tail
C34_Witness ==
    /\ ~hostReady
    /\ Len(pendingMessages) = 100
    /\ droppedMessages = <<HostMessage("custom-action", 1)>>
    /\ Head(pendingMessages).timestamp = 2
    /\ pendingMessages[100].timestamp = 101
    /\ hClock = 101

RangeOf(seq) == {seq[i] : i \in 1..Len(seq)}

\* the messages forwarded to the UI for the host, in order
Forwarded(posts) ==
    LET fw == SelectSeq(posts, LAMBDA p : p.type = "sandbox-to-host")
    IN  [i \in 1..Len(fw) |-> fw[i].data[1]]

ForwardAll(messages) ==
    [i \in 1..Len(messages) |-> UiPost("sandbox-to-host", Some(messages[i]))]

\* C35: messages sent to the host while it is not ready (other than ping)
\* are not forwarded to the UI until a host-ready message is handled; on
\* host-ready all pending messages that were not dropped are forwarded in
\* the order they were sent, each exactly once, and the pending queue is
\* empty afterwards.
C35_PendingForwardedOnHostReady ==
    /\ [](RangeOf(pendingMessages) \cap RangeOf(Forwarded(uiPosts)) = {})
    /\ [](Cardinality(RangeOf(Forwarded(uiPosts))) = Len(Forwarded(uiPosts)))
    /\ [](RangeOf(droppedMessages) \cap RangeOf(Forwarded(uiPosts)) = {})
    /\ [][HandleHostMessage("host-ready")
            => /\ uiPosts' = uiPosts \o <<UiPost("host-ready", None)>>
                                    \o ForwardAll(pendingMessages)
               /\ pendingMessages' = <<>>]_vars
    /\ [][RangeOf(pendingMessages) \cap RangeOf(Forwarded(uiPosts')) # {}
            => HandleHostMessage("host-ready")]_vars

\* two requests were queued, a ping went through in between, and host-ready
\* forwarded the two in the order they were sent
C35_Witness ==
    /\ hostReady
    /\ pendingMessages = <<>>
    /\ Len(Forwarded(uiPosts)) = 3
    /\ Forwarded(uiPosts)[1].type = "ping"
    /\ Forwarded(uiPosts)[1].timestamp = 2
    /\ Forwarded(uiPosts)[2].timestamp = 1
    /\ Forwarded(uiPosts)[3].timestamp = 3
    /\ uiPosts[2] = UiPost("host-ready", None)

\* C36: in every reachable state of HostCommunicationManager, if the host
\* is considered ready then the pending queue is empty, whether readiness
\* came from host-ready or from pong.
C36_ReadyImpliesNothingPending ==
    hostReady => pendingMessages = <<>>

\* a request is queued, then a pong is handled: the host counts as ready
\* and the request is still pending
C36_FailingInput ==
    /\ hostReady
    /\ pendingMessages = <<HostMessage("show-dock", 1)>>
    /\ uiPosts = <<>>
    /\ hOps = 2

----------------------------------------------------------------------------
(* The messages of one upload (specification SpecUpload) *)

TerminalPosts == {i \in 1..Len(uPosts) : uPosts[i].type \in {"complete", "error"}}

----------------------------------------------------------------------------
(* The logger (specification SpecLogger) *)

IsSuffix(s, t) == Len(s) <= Len(t) /\ s = SubSeq(t, Len(t) - Len(s) + 1, Len(t))

\* C37: after any sequence of configure, debug/info/warn/error and clear
\* operations the logger stores at most maxEntries entries; entries are
\* kept in logging order, the oldest entry is evicted first, and entries
\* below minLevel are neither stored nor delivered to listeners.
C37_LoggerBounded ==
    /\ [](Len(logs) <= maxEntries)
    /\ [](\A i, j \in 1..Len(logs) : i < j => logs[i].timestamp < logs[j].timestamp)
    /\ [][\A level \in 0..3 : Log(level) =>
            IF level < minLevel
            THEN logs' = logs /\ delivered' = delivered
            ELSE IsSuffix(logs', Append(logs, LogEntry(level, logClock'))) /\ logs' # <<>>
        ]_vars

\* two entries are stored and configure has set maxEntries to 1
C37_FailingInput ==
    /\ Len(logs) = 2
    /\ maxEntries = 1
    /\ logClock = 2

----------------------------------------------------------------------------
(* withRetry (specification SpecRetry) *)

FailedCalls == {i \in 1..Len(rCalls) : rCalls[i].thrown}

C38_WitnessLastError ==
    /\ rPc = "settled"
    /\ rConfig.maxAttempts = 1
    /\ rCalls = <<Throw(Thrown("e2", FALSE))>>
    /\ rResult = Some(Throw(Thrown("e2", TRUE)))
    /\ rWaits = <<>>
====
